---- MODULE Spec2Model ----
(***************************************************************************)
(* A model of dogtricks: the framed serial transport (Transport) and the   *)
(* command correlator built on it (Radio).                                 *)
(*                                                                         *)
(* Eight specifications share the definitions below.                       *)
(*   SpecCodec  one Message frame is built by SendMessageFrame, stuffed    *)
(*              and written by SendFrame, looped back byte by byte into    *)
(*              ReceiveFrame, acknowledged and handed to the listener.     *)
(*   SpecSeq    Radio::SetChannel called again and again: the sequence     *)
(*              numbers and the bytes of its request frames.               *)
(*   SpecRx     the receive loop on frames and noise from the module,      *)
(*              with Stop called at any time.                              *)
(*   Spec       caller threads in Radio::SendCommand / Radio::WaitPut and  *)
(*              the receive thread in Radio::OnPacketReceived, with the    *)
(*              mutex, the condition variable and the pending-command      *)
(*              slot.                                                      *)
(*   SpecMeta   SetGlobalMetadataMonitoringEnabled on the calling thread   *)
(*              while PutPdtResponse frames reach OnPacketReceived and     *)
(*              the metadata decoder.                                      *)
(*   SpecOps    the derived operations of Radio, one after another, with   *)
(*              the module's responses and module-ready frames.            *)
(*   SpecWrite  the write loop of SendFrame on the receive thread and on   *)
(*              the calling thread.                                        *)
(*   SpecAck    the receive loop of SpecRx with the checksum test, the     *)
(*              writes of the Ack, the listener call and its return as     *)
(*              separate steps.                                            *)
(* Bytes are naturals 0..255; a buffer is a sequence of bytes, so the C    *)
(* index i is the TLA+ index i + 1.                                        *)
(***************************************************************************)
EXTENDS Integers, Sequences, FiniteSets, TLC

VARIABLES
  \* ---- process
  ndebug,             \* TRUE when the build defines NDEBUG (assert compiled out)
  aborted,            \* TRUE once abort() ran (a failed assert or FATAL_ERROR)
  \* ---- Transport
  sequence_number_,   \* Transport::sequence_number_
  receiving_,         \* Transport::receiving_
  link,               \* the frames written to the device, oldest first
  rxIn,               \* raw bytes the device holds ready for read()
  rpc,                \* where the receive loop stands in ReceiveFrame
  message_buffer,     \* ReceiveFrame's message_buffer[0 .. pos-1]
  esc,                \* ReadByte has consumed kEscapeByte and reads the substitute
  delivered,          \* the listener calls made by ReceiveFrame: <<op_code, payload>>
  built,              \* history: every message_buffer handed to SendFrame
  fed,                \* number of frames of link the loopback has fed into rxIn
  received,           \* history: every message_buffer ReceiveFrame has read
                      \* up to its checksum byte, oldest first
  stopLog,            \* history: whether Stop was called, and how many link
                      \* reads have returned a byte to the loop since
  \* ---- the caller of Transport::SendMessageFrame (SpecCodec)
  txOp, txPayload,    \* its arguments
  txDone,             \* "idle" before the call, then how the call ended
  \* ---- Radio
  mutex_,             \* the threads holding Radio::mutex_ (none or one)
  response_op_code_,  \* Radio::response_op_code_
  response_,          \* Radio::response_: the buffer the pointer designates
  response_size_,     \* Radio::response_size_
  pc,                 \* each caller thread's position in SendCommand / WaitPut
  call,               \* each caller's current (or last) call: its arguments
  calls,              \* number of calls each caller has started
  timed_out,          \* each caller's wait_for result
  result,             \* what each caller's last call returned
  bufs,               \* contents of the caller's response buffer of its current call
  hpc, hOp, hPayload, \* the receive thread inside Radio::OnPacketReceived
  frames,             \* number of frames dispatched to OnPacketReceived
  \* ---- history
  seen,               \* per caller: <<phase, payload>> of every frame with the
                      \* call's expected opcode dispatched during the call
  deadWrites,         \* <<buffer, pending>>: memcpy wrote the buffer after its
                      \* call had returned; pending tells whether some caller
                      \* was inside a call then
  raceWrites,         \* TRUE once memcpy wrote a frame answering a call that
                      \* had timed out into the buffer of a call that expects
                      \* another opcode
  overruns,           \* TRUE once memcpy wrote past the end of a buffer
  timedOutBufs,       \* <<buffer, opcode>> of the SendCommand calls that
                      \* returned a timeout
  \* ---- Radio: the derived operations and the metadata listener
  global_metadata_monitoring_enabled_,  \* Radio::global_metadata_monitoring_enabled_
  oper,               \* the operation the calling thread is in, and how far
  response,           \* the operation's local response[] array
  ret,                \* what the last operation returned, with its history
  events,             \* the OnMetadataChange calls: <<channel_id, data, k>>,
                      \* made for the k-th frame of pdtLog
  pdtLog,             \* history: every frame OnPacketReceived was called with
  inflight,           \* the requests the module has not answered yet
  \* ---- the device: write() calls in progress
  wr,                 \* per thread in SendFrame: tx_buffer and write_pos
  tty                 \* the bytes the device accepted, each with its writer

vars == <<ndebug, aborted, sequence_number_, receiving_, link, rxIn, rpc,
          message_buffer, esc, delivered, built, fed, received, stopLog, txOp,
          txPayload, txDone, mutex_, response_op_code_, response_, response_size_, pc, call,
          calls, timed_out, result, bufs, hpc, hOp, hPayload, frames,
          seen, deadWrites, raceWrites, overruns, timedOutBufs,
          global_metadata_monitoring_enabled_, oper, response, ret, events,
          pdtLog, inflight, wr, tty>>

appVars == <<global_metadata_monitoring_enabled_, oper, response, ret, events,
             pdtLog, inflight, wr, tty>>

transportVars == <<sequence_number_, receiving_, link, rxIn, rpc,
                   message_buffer, esc, delivered, built, fed, received,
                   stopLog, txOp, txPayload, txDone>>

radioVars == <<mutex_, response_op_code_, response_, response_size_, pc, call,
               calls, timed_out, result, bufs, hpc, hOp, hPayload, frames,
               seen, deadWrites, raceWrites, overruns, timedOutBufs>>

----------------------------------------------------------------------------
(* Program constants (transport.h).                                        *)

UINT8_MAX == 255
kMessageBufferSize == 287
kTxRxBufferSize == 319
kSyncByte == 164
kEscapeByte == 27
kEscapedSyncByte == 83
kProtocolByte == 3
kMessageFrame == 0
kAckFrame == 128

Byte == 0 .. 255

----------------------------------------------------------------------------
(* Integer conversions.                                                    *)

\* static_cast<uint8_t>(x)
ToUInt8(x) == x % 256

\* static_cast<int8_t>(x): two's complement
ToInt8(x) == LET m == x % 256 IN IF m >= 128 THEN m - 256 ELSE m

----------------------------------------------------------------------------
(* Frame codec.                                                            *)

\* The loop of ComputeSum over buffer[lo .. hi] (TLA+ indices), entered with
\* the running int8_t sum: the bytes are added in index order, the sum
\* wrapping to int8_t after each.  The range is split in two so that the
\* evaluation nests to a depth of log2 of its length; testing the running
\* sum against the int8_t range makes TLC evaluate it at every step.
Int8 == -128 .. 127

RECURSIVE SumLoop(_, _, _, _)
SumLoop(buffer, lo, hi, sum) ==
  IF lo > hi \/ sum \notin Int8 THEN sum
  ELSE IF lo = hi THEN ToInt8(sum + ToInt8(buffer[lo]))
  ELSE LET mid == (lo + hi) \div 2
       IN  SumLoop(buffer, mid + 1, hi, SumLoop(buffer, lo, mid, sum))

\* A ComputeSum that leaves the sync byte out of the sum.
ComputeSumSkipsSync(buffer, size) == SumLoop(buffer, 2, size, 0)

\* int8_t Transport::ComputeSum(buffer, size)
ComputeSum(buffer, size) == SumLoop(buffer, 1, size, 0)

\* The header, opcode and payload SendMessageFrame stores before the checksum.
MessageHeader(op_code, payload, seq) ==
  <<kSyncByte, kProtocolByte, 0, seq, kMessageFrame,
    ToUInt8(ToUInt8(Len(payload)) + 2),
    ToUInt8(op_code \div 256), ToUInt8(op_code)>> \o payload

\* message_buffer as SendMessageFrame hands it to SendFrame.
MessageFrame(op_code, payload, seq) ==
  LET body == MessageHeader(op_code, payload, seq)
      checksum == ComputeSum(body, Len(body))
  IN  Append(body, ToUInt8(0 - checksum))

\* An Ack frame that carries the sequence number after the one received.
AckFrameNextSeq(seq) ==
  LET head == <<kSyncByte, kProtocolByte, 0, ToUInt8(seq + 1), kAckFrame, 0>>
  IN  Append(head, ToUInt8(0 - ComputeSum(head, Len(head))))

\* message_buffer as SendAckFrame hands it to SendFrame.
AckFrame(seq) ==
  LET body == <<kSyncByte, kProtocolByte, 0, seq, kAckFrame, 0>>
      checksum == ComputeSum(body, Len(body))
  IN  Append(body, ToUInt8(0 - checksum))

\* bool Transport::InsertByte(byte, buffer, pos, size); *pos is Len(buffer).
InsertByte(byte, buffer, size) ==
  IF byte = kSyncByte /\ Len(buffer) + 1 < size
    THEN [success |-> TRUE, buffer |-> buffer \o <<kEscapeByte, kEscapedSyncByte>>]
  ELSE IF byte = kEscapeByte /\ Len(buffer) + 1 < size
    THEN [success |-> TRUE, buffer |-> buffer \o <<kEscapeByte, kEscapeByte>>]
  ELSE IF Len(buffer) < size
    THEN [success |-> TRUE, buffer |-> Append(buffer, byte)]
  ELSE [success |-> FALSE, buffer |-> buffer]

\* The loop of SendFrame over frame[lo .. hi] (TLA+ indices), entered with
\* success and tx_buffer: it inserts byte after byte while success holds.
\* Split in two like SumLoop.
RECURSIVE StuffLoop(_, _, _, _)
StuffLoop(frame, lo, hi, st) ==
  IF lo > hi \/ ~st.success THEN st
  ELSE IF lo = hi THEN InsertByte(frame[lo], st.buffer, kTxRxBufferSize)
  ELSE LET mid == (lo + hi) \div 2
       IN  StuffLoop(frame, mid + 1, hi, StuffLoop(frame, lo, mid, st))

\* The first loop of Transport::SendFrame: tx_buffer and success.
StuffFrame(frame) ==
  StuffLoop(frame, 2, Len(frame), [success |-> TRUE, buffer |-> <<kSyncByte>>])

----------------------------------------------------------------------------
(* Transport: sending.  write() is taken to accept the bytes (a device     *)
(* error ends the process through FATAL_ERROR and is not an input here).   *)

\* void Transport::SendFrame(frame, size): stuff, then write tx_buffer.
\* A byte that does not fit fails assert(success); with NDEBUG nothing is
\* written.
SendFrame(frame) ==
  LET st == StuffFrame(frame)
  IN  /\ built' = built \cup {frame}
      /\ IF st.success
           THEN link' = Append(link, st.buffer) /\ aborted' = aborted
           ELSE link' = link /\ aborted' = ~ndebug

\* A SendMessageFrame that does not advance sequence_number_.
SendMessageFrameSameSeq(op_code, payload) ==
  IF Len(payload) > UINT8_MAX /\ ~ndebug
    THEN /\ aborted' = TRUE
         /\ UNCHANGED <<sequence_number_, link, built>>
    ELSE /\ sequence_number_' = sequence_number_
         /\ SendFrame(MessageFrame(op_code, payload, sequence_number_))

\* void Transport::SendMessageFrame(op_code, payload, size).  The payloads
\* drawn here leave message_buffer (kMessageBufferSize bytes) room for
\* header, payload and checksum also when NDEBUG lets a size above
\* UINT8_MAX through.
SendMessageFrame(op_code, payload) ==
  IF Len(payload) > UINT8_MAX /\ ~ndebug
    THEN /\ aborted' = TRUE
         /\ UNCHANGED <<sequence_number_, link, built>>
    ELSE /\ sequence_number_' = ToUInt8(sequence_number_ + 1)
         /\ SendFrame(MessageFrame(op_code, payload, sequence_number_))

\* void Transport::SendAckFrame(sequence_number)
SendAckFrame(seq) == SendFrame(AckFrame(seq))

----------------------------------------------------------------------------
(* Transport: the receive loop.                                            *)

\* A frame size that leaves out the checksum byte.
FrameSizeWithoutChecksum(buffer) ==
  IF Len(buffer) < 6 THEN 7 ELSE 6 + buffer[6]

\* Number of bytes ReceiveFrame stores for the frame in message_buffer:
\* sync, five header fields, message_buffer[5] payload bytes, checksum.
\* Unknown until the length field is stored.
FrameSize(buffer) == IF Len(buffer) < 6 THEN 7 ELSE 6 + buffer[6] + 1

\* A checksum test that adds the two int8_t values as int and compares
\* with 0, without the cast to uint8_t.
ChecksumValidAsInt(buffer) ==
  LET computed_sum == ComputeSum(buffer, Len(buffer) - 1)
      received_sum == ToInt8(buffer[Len(buffer)])
  IN  computed_sum + received_sum = 0

\* The checksum test of ReceiveFrame: computed_sum over pos - 1 bytes,
\* received_sum the last byte, both int8_t, their sum cast to uint8_t.
ChecksumValid(buffer) ==
  LET computed_sum == ComputeSum(buffer, Len(buffer) - 1)
      received_sum == ToInt8(buffer[Len(buffer)])
  IN  ToUInt8(computed_sum + received_sum) = 0

\* An opcode read low byte first.
FrameOpCodeSwapped(buffer) == buffer[8] * 256 + buffer[7]

\* (message_buffer[6] << 8) | message_buffer[7]
FrameOpCode(buffer) == buffer[7] * 256 + buffer[8]

\* &message_buffer[8], message_buffer[5] - 2 bytes
FramePayload(buffer) == SubSeq(buffer, 9, 6 + buffer[6])

\* bool Transport::Start(): the transport is open; the loop begins.
Start ==
  /\ ~aborted /\ rpc = "init"
  /\ receiving_' = TRUE
  /\ rpc' = "sync"
  /\ UNCHANGED <<ndebug, aborted, sequence_number_, link, rxIn, message_buffer,
                 esc, delivered, built, fed, received, stopLog, txOp, txPayload,
                 txDone>>
  /\ UNCHANGED radioVars
  /\ UNCHANGED appVars

\* A link read has returned a byte to the receive loop.
ReadReturned(log) ==
  IF log.called THEN [log EXCEPT !.reads = log.reads + 1] ELSE log

\* void Transport::Stop(), from another thread (main, the signal handler),
\* at any time after the receive thread was created: before Start has
\* written receiving_ too.
Stop ==
  /\ ~aborted /\ ~stopLog.called
  /\ receiving_' = FALSE
  /\ stopLog' = [called |-> TRUE, reads |-> 0]
  /\ UNCHANGED <<ndebug, aborted, sequence_number_, link, rxIn, rpc,
                 message_buffer, esc, delivered, built, fed, received, txOp,
                 txPayload, txDone>>
  /\ UNCHANGED radioVars
  /\ UNCHANGED appVars

\* ReceiveFrame's sync loop: one ReadRawByte that returned a byte.
RxSync ==
  /\ ~aborted /\ rpc = "sync" /\ receiving_ /\ rxIn # <<>>
  /\ rxIn' = Tail(rxIn)
  /\ IF Head(rxIn) = kSyncByte
       THEN rpc' = "frame" /\ message_buffer' = <<Head(rxIn)>>
       ELSE rpc' = "sync" /\ message_buffer' = <<>>
  /\ stopLog' = ReadReturned(stopLog)
  /\ UNCHANGED <<ndebug, aborted, sequence_number_, receiving_, link, esc,
                 delivered, built, fed, received, txOp, txPayload, txDone>>
  /\ UNCHANGED radioVars
  /\ UNCHANGED appVars

\* The value ReadByte stores for raw byte b, given whether the escape byte
\* came before it: "esc" (read the substitute next), "bad" (FATAL_ERROR) or
\* the byte.
ReadByte(b, escaped) ==
  IF escaped
    THEN IF b = kEscapedSyncByte THEN [kind |-> "byte", byte |-> kSyncByte]
         ELSE IF b = kEscapeByte THEN [kind |-> "byte", byte |-> kEscapeByte]
         ELSE [kind |-> "bad", byte |-> b]
    ELSE IF b = kEscapeByte THEN [kind |-> "esc", byte |-> b]
         ELSE [kind |-> "byte", byte |-> b]

\* One ReadRawByte inside a ReadByte of ReceiveFrame's header, payload or
\* checksum reads.
RxByte ==
  /\ ~aborted /\ rpc = "frame" /\ receiving_ /\ rxIn # <<>>
  /\ rxIn' = Tail(rxIn)
  /\ stopLog' = ReadReturned(stopLog)
  /\ LET r == ReadByte(Head(rxIn), esc)
         buf == Append(message_buffer, r.byte)
     IN  CASE r.kind = "esc" ->
                esc' = TRUE /\ UNCHANGED <<message_buffer, rpc, aborted>>
           [] r.kind = "bad" ->
                aborted' = TRUE /\ UNCHANGED <<message_buffer, rpc, esc>>
           [] r.kind = "byte" ->
                /\ esc' = FALSE
                /\ message_buffer' = buf
                /\ rpc' = IF Len(buf) = FrameSize(buf) THEN "validate" ELSE "frame"
                /\ UNCHANGED aborted
  /\ UNCHANGED <<ndebug, sequence_number_, receiving_, link, delivered, built,
                 fed, received, txOp, txPayload, txDone>>
  /\ UNCHANGED radioVars
  /\ UNCHANGED appVars

\* A ReceiveFrame that acknowledges Ack frames too.
RxFinishAcksAcks ==
  /\ ~aborted /\ rpc = "validate"
  /\ rpc' = "sync" /\ message_buffer' = <<>>
  /\ received' = Append(received, message_buffer)
  /\ IF /\ ChecksumValid(message_buffer)
        /\ message_buffer[5] \in {kMessageFrame, kAckFrame}
       THEN /\ SendAckFrame(message_buffer[4])
            /\ delivered' =
                 IF message_buffer[6] < 2 \/ message_buffer[5] = kAckFrame
                   THEN delivered
                   ELSE Append(delivered, <<FrameOpCode(message_buffer),
                                            FramePayload(message_buffer)>>)
       ELSE UNCHANGED <<link, built, aborted, delivered>>
  /\ UNCHANGED <<ndebug, sequence_number_, receiving_, rxIn, esc, fed,
                 stopLog, txOp, txPayload, txDone>>
  /\ UNCHANGED radioVars
  /\ UNCHANGED appVars

\* ReceiveFrame after the checksum byte was read: validate, acknowledge a
\* Message frame, hand a payload of at least the opcode to the listener.
RxFinish ==
  /\ ~aborted /\ rpc = "validate"
  /\ rpc' = "sync" /\ message_buffer' = <<>>
  /\ received' = Append(received, message_buffer)
  /\ IF ChecksumValid(message_buffer) /\ message_buffer[5] = kMessageFrame
       THEN /\ SendAckFrame(message_buffer[4])
            /\ delivered' =
                 IF message_buffer[6] < 2 THEN delivered
                 ELSE Append(delivered, <<FrameOpCode(message_buffer),
                                          FramePayload(message_buffer)>>)
       ELSE UNCHANGED <<link, built, aborted, delivered>>
  /\ UNCHANGED <<ndebug, sequence_number_, receiving_, rxIn, esc, fed,
                 stopLog, txOp, txPayload, txDone>>
  /\ UNCHANGED radioVars
  /\ UNCHANGED appVars

\* A ReceiveFrame that still validates, acknowledges and dispatches a frame
\* whose last byte came with the read that found receiving_ false.
RxStoppedFinishesFrame ==
  /\ ~aborted /\ rpc \in {"sync", "frame"} /\ ~receiving_
  /\ rpc' = "off" /\ esc' = FALSE
  /\ rxIn # <<>> /\ rxIn' = Tail(rxIn) /\ stopLog' = ReadReturned(stopLog)
  /\ LET buf == Append(message_buffer, Head(rxIn))
     IN  /\ message_buffer' = buf
         /\ IF /\ Len(buf) >= 7 /\ Len(buf) = FrameSize(buf)
               /\ ChecksumValid(buf) /\ buf[5] = kMessageFrame
              THEN /\ SendAckFrame(buf[4])
                   /\ delivered' =
                        IF buf[6] < 2 THEN delivered
                        ELSE Append(delivered,
                                    <<FrameOpCode(buf), FramePayload(buf)>>)
              ELSE UNCHANGED <<link, built, aborted, delivered>>
  /\ UNCHANGED <<ndebug, sequence_number_, receiving_, fed, received, txOp,
                 txPayload, txDone>>
  /\ UNCHANGED radioVars
  /\ UNCHANGED appVars

\* ReadRawByte returned false (receiving_ is false): every later read of
\* this ReceiveFrame fails too, the frame is dropped and Start's loop ends.
\* The read() that was in progress when Stop ran may have taken one byte,
\* which it has stored, as it came, where the next byte of the frame goes;
\* message_buffer is then what ReceiveFrame leaves behind as it returns.
RxStopped ==
  /\ ~aborted /\ rpc \in {"sync", "frame"} /\ ~receiving_
  /\ rpc' = "off" /\ esc' = FALSE
  /\ \/ /\ rxIn' = rxIn /\ stopLog' = stopLog
        /\ message_buffer' = message_buffer
     \/ /\ rxIn # <<>> /\ rxIn' = Tail(rxIn)
        /\ stopLog' = ReadReturned(stopLog)
        /\ message_buffer' = Append(message_buffer, Head(rxIn))
  /\ UNCHANGED <<ndebug, aborted, sequence_number_, receiving_, link,
                 delivered, built, fed, received, txOp, txPayload, txDone>>
  /\ UNCHANGED radioVars
  /\ UNCHANGED appVars

----------------------------------------------------------------------------
(* SpecCodec: one call of SendMessageFrame, looped back into the receive   *)
(* loop.                                                                   *)

MaxSmallLen == 2

\* Byte values the codec treats specially, and two it does not.
CodecBytes == {0, kEscapeByte, kEscapedSyncByte, kSyncByte}

RECURSIVE SeqsUpTo(_, _)
SeqsUpTo(S, n) ==
  IF n = 0 THEN {<<>>}
  ELSE LET shorter == SeqsUpTo(S, n - 1)
       IN  shorter \cup {Append(q, b) : q \in {x \in shorter : Len(x) = n - 1}, b \in S}

\* n bytes: k sync bytes, then n - k bytes b.
Fill(n, k, b) == [i \in 1 .. n |-> IF i <= k THEN kSyncByte ELSE b]

\* <<n, k, b>> of the long payloads: the longest legal payload plain, half
\* and all sync bytes; all-sync payloads around the size where the stuffed
\* frame stops fitting tx_buffer; payloads whose stuffed frame ends exactly
\* at the last byte of tx_buffer; payloads above 253 bytes.
LongShapes ==
  { <<253, 0, 0>>, <<253, 57, 0>>, <<253, 253, 0>>,
    <<155, 155, 0>>, <<156, 156, 0>>,
    <<159, 151, 0>>, <<188, 122, 0>>,
    <<254, 0, 0>>, <<255, 0, 1>>, <<256, 0, 0>> }

CodecPayloads ==
  SeqsUpTo(CodecBytes, MaxSmallLen)
    \cup {Fill(s[1], s[2], s[3]) : s \in LongShapes}

\* SetPowerModeRequest, GetSignalRequest, and a 16-bit value made of the
\* escape and the sync byte.
CodecOps == {8, 16408, 7076}

\* Sequence numbers the transport holds after that many earlier sends:
\* none, and those that put the escape byte and the sync byte in the header.
StartSeqs == {0, kEscapeByte, kSyncByte}

\* mutex_ is the set of threads that hold it: empty or one thread.
Free == {}

\* The thread main starts to run Radio::Start.
ReceiveThread == 0

\* A pointer that designates no caller's buffer (indeterminate).
Wild == <<0, 0>>

\* A buffer byte that was never written.
Uninit == -1

\* No operation in progress; no response array; nothing returned yet.
NoOp ==
  [name |-> "none", arg |-> 0, kind |-> "none", stage |-> "idle",
   timed_out |-> FALSE, sent |-> 0, got |-> <<>>]

NoBuffer == [size |-> 0, data |-> <<>>]

NoReturn ==
  [n |-> 0, name |-> "none", arg |-> 0, success |-> FALSE, out |-> <<>>,
   top |-> -1, sent |-> 0, got |-> <<>>, kind |-> "none",
   timed_out |-> FALSE, data |-> <<>>, frames |-> 0]

\* No derived operation of Radio is called, no metadata frame arrives and
\* no write() is in progress.
AppIdle ==
  /\ global_metadata_monitoring_enabled_ = FALSE
  /\ oper = NoOp /\ response = NoBuffer /\ ret = NoReturn
  /\ events = <<>> /\ pdtLog = <<>> /\ inflight = <<>>
  /\ wr = <<>> /\ tty = <<>>

\* The Radio above the transport takes no part in SpecCodec: the listener
\* there records the calls it gets.
RadioIdle ==
  /\ mutex_ = Free
  /\ response_op_code_ = 0 /\ response_ = Wild /\ response_size_ = 0
  /\ pc = <<>> /\ call = <<>> /\ calls = <<>> /\ timed_out = <<>>
  /\ result = <<>> /\ bufs = <<>>
  /\ hpc = "idle" /\ hOp = 0 /\ hPayload = <<>> /\ frames = 0
  /\ seen = <<>>
  /\ deadWrites = {} /\ raceWrites = FALSE /\ overruns = FALSE
  /\ timedOutBufs = {}
  /\ AppIdle

\* receiving_ has no initializer; it is written by Start and Stop before
\* the receive loop reads it.
InitCodec ==
  /\ ndebug \in BOOLEAN
  /\ aborted = FALSE
  /\ sequence_number_ \in StartSeqs
  /\ receiving_ = FALSE
  /\ link = <<>> /\ rxIn = <<>> /\ rpc = "init"
  /\ message_buffer = <<>> /\ esc = FALSE /\ delivered = <<>>
  /\ built = {} /\ fed = 0 /\ received = <<>>
  /\ stopLog = [called |-> FALSE, reads |-> 0]
  /\ txOp \in CodecOps /\ txPayload \in CodecPayloads /\ txDone = "idle"
  /\ RadioIdle

\* The caller's thread calls transport.SendMessageFrame(txOp, txPayload).
CodecSend ==
  /\ ~aborted /\ txDone = "idle"
  /\ SendMessageFrame(txOp, txPayload)
  /\ txDone' = IF aborted' THEN "aborted"
               ELSE IF link' # link THEN "written" ELSE "dropped"
  /\ UNCHANGED <<ndebug, receiving_, rxIn, rpc, message_buffer, esc,
                 delivered, fed, received, stopLog, txOp, txPayload>>
  /\ UNCHANGED radioVars
  /\ UNCHANGED appVars

\* The peer echoes the next written frame: its bytes become readable.
Loopback ==
  /\ ~aborted /\ fed < Len(link) /\ rxIn = <<>>
  /\ rxIn' = link[fed + 1]
  /\ fed' = fed + 1
  /\ UNCHANGED <<ndebug, aborted, sequence_number_, receiving_, link, rpc,
                 message_buffer, esc, delivered, built, received, stopLog, txOp,
                 txPayload, txDone>>
  /\ UNCHANGED radioVars
  /\ UNCHANGED appVars

NextCodec ==
  \/ CodecSend
  \/ Loopback
  \/ Start
  \/ Stop
  \/ RxSync
  \/ RxByte
  \/ RxFinish
  \/ RxStopped

SpecCodec == InitCodec /\ [][NextCodec]_vars

----------------------------------------------------------------------------
(* Properties of the codec, checked under SpecCodec.                       *)

\* The sum of frame[lo .. hi] as a natural number.
RECURSIVE ByteSum(_, _, _)
ByteSum(frame, lo, hi) ==
  IF lo > hi THEN 0
  ELSE IF lo = hi THEN frame[lo]
  ELSE LET mid == (lo + hi) \div 2
       IN  ByteSum(frame, lo, mid) + ByteSum(frame, mid + 1, hi)

\* A left-to-right scan of wire[lo .. hi] for escape sequences.  The state
\* is "plain" (the next byte stands for itself), "open" (the last byte was
\* an escape byte that opened a sequence) or "bad" (an opening escape byte
\* was followed by neither substitute).
EscapeStep(state, b) ==
  IF state = "bad" THEN "bad"
  ELSE IF state = "open"
    THEN IF b \in {kEscapedSyncByte, kEscapeByte} THEN "plain" ELSE "bad"
  ELSE IF b = kEscapeByte THEN "open" ELSE "plain"

RECURSIVE EscapeScan(_, _, _, _)
EscapeScan(wire, lo, hi, state) ==
  IF lo > hi \/ state = "bad" THEN state
  ELSE IF lo = hi THEN EscapeStep(state, wire[lo])
  ELSE LET mid == (lo + hi) \div 2
       IN  EscapeScan(wire, mid + 1, hi, EscapeScan(wire, lo, mid, state))

\* No sync byte after position 0, and every opening escape byte is followed
\* at once by one of the two substitutes.
WellStuffed(wire) ==
  /\ \A j \in 2 .. Len(wire) : wire[j] # kSyncByte
  /\ EscapeScan(wire, 2, Len(wire), "plain") = "plain"

\* Everything SendMessageFrame wrote, and every Ack written since, has been
\* fed to the running receive loop, which has read all of it.
Quiescent ==
  /\ txDone # "idle" /\ receiving_
  /\ fed = Len(link) /\ rxIn = <<>>
  /\ rpc \in {"sync", "frame"}

\* C7: round trip.  For a payload of at most 253 bytes, the bytes written by
\* SendMessageFrame(txOp, txPayload), fed into the receive loop, reach the
\* listener exactly once, as OnPacketReceived(txOp, txPayload): the process
\* does not abort, the listener gets no other call, and once the loop has
\* read everything that was written it has made that call.
C7_RoundTrip ==
  (Len(txPayload) <= 253 /\ txDone # "idle") =>
    /\ ~aborted
    /\ Len(delivered) <= 1
    /\ \A i \in 1 .. Len(delivered) : delivered[i] = <<txOp, txPayload>>
    /\ Quiescent => delivered = << <<txOp, txPayload>> >>

\* C8: escaping invariant.  In every byte sequence written to the link (a
\* Message frame or an Ack) the sync byte occurs at position 0 only and every
\* escape byte that opens a sequence is followed by 0x53 or 0x1B.
C8_EscapingInvariant == \A i \in 1 .. Len(link) : WellStuffed(link[i])

\* C9: checksum invariant.  Every frame SendMessageFrame or SendAckFrame
\* builds (header, payload and checksum byte, before stuffing) has a byte
\* sum of 0 modulo 256.
C9_ChecksumInvariant == \A f \in built : ByteSum(f, 1, Len(f)) % 256 = 0

\* C9's case: a Message frame whose bytes before the checksum sum past 255
\* and whose checksum byte has the sign bit set, and an Ack frame.
C9_Witness ==
  /\ \E f \in built : /\ f[5] = kMessageFrame
                      /\ ByteSum(f, 1, Len(f) - 1) > 255
                      /\ f[Len(f)] >= 128
  /\ \E g \in built : g[5] = kAckFrame

\* C10: a payload longer than 253 bytes is rejected.  Nothing is written to
\* the link for it, so the length field of a written Message frame is the
\* payload length plus 2.
C10_RejectsLongPayload ==
  /\ Len(txPayload) > 253 => (txDone # "written" /\ link = <<>>)
  /\ txDone = "written" =>
       \A f \in built : f[5] = kMessageFrame => f[6] = Len(txPayload) + 2

\* C11: stuffing capacity.  Stuffing a Message frame whose payload has at
\* most 253 bytes (header, opcode, payload and checksum: at most 262) into
\* tx_buffer never fails for lack of room.
C11_StuffingCapacity ==
  \A f \in built :
    (f[5] = kMessageFrame /\ Len(f) <= 253 + 9) => StuffFrame(f).success

\* C19: layout of a Message frame before stuffing.  The frame
\* SendMessageFrame(txOp, txPayload) builds is sync 0xA4, version 0x03,
\* module id 0x00, the sequence number the transport held, type 0x00,
\* length = payload length + 2, opcode high byte, opcode low byte, the
\* payload, and the checksum that makes the byte sum 0 modulo 256.
C19_MessageFrameLayout ==
  \A f \in built :
    f[5] = kMessageFrame =>
      /\ f = <<164, 3, 0, (sequence_number_ + 255) % 256, 0,
               Len(txPayload) + 2, txOp \div 256, txOp % 256>>
               \o txPayload \o <<f[Len(f)]>>
      /\ ByteSum(f, 1, Len(f)) % 256 = 0

----------------------------------------------------------------------------
(* SpecSeq: the main thread calls Radio::SetChannel again and again; each  *)
(* call sends one SetChannelRequest through SendMessageFrame.  Waiting for *)
(* the response is the subject of Spec.                                    *)

\* Transport::OpCode::SetChannelRequest
SetChannelRequest == 10

\* The calls made, enough for sequence_number_ to wrap.
MaxSends == 258

\* Channel ids: the default of --set_channel, and values that are the
\* protocol's special bytes.
Channels == {0, 51, kEscapeByte, kSyncByte}

\* A payload that differs from what Radio::SetChannel sends.
SetChannelPayloadShort(channel_id) == <<channel_id, 0>>

\* uint8_t payload[] = { channel_id, 0, 0, 0 };
SetChannelPayload(channel_id) == <<channel_id, 0, 0, 0>>

InitSeq ==
  /\ ndebug \in BOOLEAN
  /\ aborted = FALSE
  /\ sequence_number_ = 0
  /\ receiving_ = FALSE
  /\ link = <<>> /\ rxIn = <<>> /\ rpc = "init"
  /\ message_buffer = <<>> /\ esc = FALSE /\ delivered = <<>>
  /\ built = {} /\ fed = 0 /\ received = <<>>
  /\ stopLog = [called |-> FALSE, reads |-> 0]
  /\ txOp = SetChannelRequest
  /\ txPayload \in {SetChannelPayload(ch) : ch \in Channels}
  /\ txDone = "idle"
  /\ RadioIdle

\* Radio::SetChannel(channel_id) down to
\* transport_.SendMessageFrame(SetChannelRequest, payload, sizeof(payload)).
SetChannel ==
  /\ ~aborted /\ Len(link) < MaxSends
  /\ SendMessageFrame(txOp, txPayload)
  /\ txDone' = "written"
  /\ UNCHANGED <<ndebug, receiving_, rxIn, rpc, message_buffer, esc,
                 delivered, fed, received, stopLog, txOp, txPayload>>
  /\ UNCHANGED radioVars
  /\ UNCHANGED appVars

NextSeq == SetChannel

SpecSeq == InitSeq /\ [][NextSeq]_vars

\* The sequence number a written frame carries: the byte at position 3,
\* unstuffed.
WireSeq(wire) ==
  IF wire[4] # kEscapeByte THEN wire[4]
  ELSE IF wire[5] = kEscapedSyncByte THEN kSyncByte ELSE kEscapeByte

\* C12: sequence numbers.  The first Message frame written carries 0, and
\* each later one the number of the one before plus 1 modulo 256, which is
\* never the same number.
C12_SequenceNumbers ==
  /\ link # <<>> => WireSeq(link[1]) = 0
  /\ \A i \in 1 .. Len(link) - 1 :
       /\ WireSeq(link[i + 1]) = (WireSeq(link[i]) + 1) % 256
       /\ WireSeq(link[i + 1]) # WireSeq(link[i])

\* C12's case: the counter has wrapped, 255 is followed by 0.
C12_Witness ==
  /\ Len(link) >= 257
  /\ WireSeq(link[256]) = 255
  /\ WireSeq(link[257]) = 0

\* C20 as stated: the frame built for SetChannel(51) is
\* A4 03 00 <seq> 00 04 00 0A 33 00 00 00 <checksum>.
C20_SetChannelFrameLength4 ==
  txPayload[1] = 51 =>
    \A f \in built :
      /\ Len(f) = 13
      /\ SubSeq(f, 1, 3) = <<164, 3, 0>>
      /\ SubSeq(f, 5, 12) = <<0, 4, 0, 10, 51, 0, 0, 0>>

\* C20, amended: the frame built for SetChannel(51) is
\* A4 03 00 <seq> 00 06 00 0A 33 00 00 00 <checksum>; the length byte counts
\* the opcode and the four payload bytes.
C20_SetChannelFrame ==
  txPayload[1] = 51 =>
    \A f \in built :
      /\ Len(f) = 13
      /\ SubSeq(f, 1, 3) = <<164, 3, 0>>
      /\ SubSeq(f, 5, 12) = <<0, 6, 0, 10, 51, 0, 0, 0>>
      /\ ByteSum(f, 1, 13) % 256 = 0

\* C20's case: SetChannel(51) has sent its request.
C20_Witness == txPayload[1] = 51 /\ built # {} /\ link # <<>>

----------------------------------------------------------------------------
(* SpecRx: the receive loop reads what the module sent: well-formed        *)
(* frames of every type, frames with a wrong checksum, a cut frame, an     *)
(* invalid escape sequence and noise, while Stop may be called.            *)

\* The frames of the input, at most.
MaxRxFrames == 2

\* A frame as the module builds it: header, body, and the checksum plus
\* delta (0 for a checksum that validates).
RxFrame(seq, type, body, delta) ==
  LET head == <<kSyncByte, kProtocolByte, 0, seq, type, Len(body)>> \o body
  IN  head \o <<(512 - (ByteSum(head, 1, Len(head)) % 256) + delta) % 256>>

\* The module stuffs its frames as InsertByte does.
PeerWire(frame) == StuffFrame(frame).buffer

\* What the module sends.  Message frames: a SetResetResponse with a status,
\* a PutModuleReadyResponse whose sequence number and payload need
\* stuffing, a GetSignalResponse opcode with no payload, frames of length 1
\* and 0, a frame with a wrong checksum, and a PutModuleReadyResponse
\* opcode in a frame whose bytes before the checksum sum to 0x80, so that
\* the checksum byte is 0x80.  Ack frames: plain, with a
\* body, with a wrong checksum.  A frame of another type.  A frame cut
\* after its module id, an escape byte followed by neither substitute, and
\* noise before the sync byte.
RxWires ==
  { PeerWire(RxFrame(7, kMessageFrame, <<32, 9, 0, 0>>, 0)),
    PeerWire(RxFrame(kSyncByte, kMessageFrame, <<128, 0, kEscapeByte>>, 0)),
    PeerWire(RxFrame(kEscapeByte, kMessageFrame, <<96, 24>>, 0)),
    PeerWire(RxFrame(kSyncByte, kMessageFrame, <<5>>, 0)),
    PeerWire(RxFrame(9, kMessageFrame, <<>>, 0)),
    PeerWire(RxFrame(7, kMessageFrame, <<32, 9, 0, 0>>, 1)),
    PeerWire(RxFrame(87, kMessageFrame, <<128, 0>>, 0)),
    PeerWire(RxFrame(7, kAckFrame, <<>>, 0)),
    PeerWire(RxFrame(kSyncByte, kAckFrame, <<32, 9>>, 0)),
    PeerWire(RxFrame(7, kAckFrame, <<>>, 1)),
    PeerWire(RxFrame(7, 64, <<32, 9, 0, 0>>, 0)),
    <<kSyncByte, kProtocolByte, 0>>,
    <<kSyncByte, kProtocolByte, kEscapeByte, 0, 0, 0, 0>>,
    <<0, kEscapedSyncByte>> }

\* The concatenation of the wires of ws.
RECURSIVE Concat(_)
Concat(ws) == IF ws = <<>> THEN <<>> ELSE Head(ws) \o Concat(Tail(ws))

RxInputs == {Concat(ws) : ws \in SeqsUpTo(RxWires, MaxRxFrames)}

InitRx ==
  /\ ndebug \in BOOLEAN
  /\ aborted = FALSE
  /\ sequence_number_ = 0
  /\ receiving_ = FALSE
  /\ link = <<>> /\ rxIn \in RxInputs /\ rpc = "init"
  /\ message_buffer = <<>> /\ esc = FALSE /\ delivered = <<>>
  /\ built = {} /\ fed = 0 /\ received = <<>>
  /\ stopLog = [called |-> FALSE, reads |-> 0]
  /\ txOp = 0 /\ txPayload = <<>> /\ txDone = "idle"
  /\ RadioIdle

NextRx ==
  \/ Start
  \/ Stop
  \/ RxSync
  \/ RxByte
  \/ RxFinish
  \/ RxStopped

SpecRx == InitRx /\ [][NextRx]_vars

\* The frame's bytes, checksum included, sum to 0 modulo 256.
ValidSum(f) == ByteSum(f, 1, Len(f)) % 256 = 0

IsValidMessage(f) == ValidSum(f) /\ f[5] = kMessageFrame

IsValidAck(f) == ValidSum(f) /\ f[5] = kAckFrame

\* A valid Message frame whose declared length covers the opcode.
IsListenerFrame(f) == IsValidMessage(f) /\ f[6] >= 2

\* The bytes a written frame stands for, from position i on.
RECURSIVE Unstuff(_, _)
Unstuff(wire, i) ==
  IF i > Len(wire) THEN <<>>
  ELSE IF wire[i] = kEscapeByte /\ i < Len(wire)
    THEN <<IF wire[i + 1] = kEscapedSyncByte THEN kSyncByte ELSE wire[i + 1]>>
           \o Unstuff(wire, i + 2)
  ELSE <<wire[i]>> \o Unstuff(wire, i + 1)

\* The Ack frame for sequence number seq, byte by byte.
AckBytes(seq) == <<164, 3, 0, seq, 128, 0, (1024 - (164 + 3 + seq + 128)) % 256>>

\* C13: the transport writes an Ack exactly for the frames it received with
\* a valid checksum and type Message, whatever their length; the Ack has
\* type 0x80, length 0 and the received frame's sequence number, and
\* sequence_number_ stays as it was.
C13_AckIffValidMessage ==
  LET msgs == SelectSeq(received, IsValidMessage)
  IN  /\ Len(link) = Len(msgs)
      /\ \A i \in 1 .. Len(link) : Unstuff(link[i], 1) = AckBytes(msgs[i][4])
      /\ sequence_number_ = 0

\* C13's case: a Message frame of length below 2 was acknowledged, with a
\* sequence number that needs stuffing, and another frame was not.
C13_Witness ==
  /\ \E i \in 1 .. Len(received) :
       IsValidMessage(received[i]) /\ received[i][6] < 2
  /\ \E i \in 1 .. Len(received) : ~IsValidMessage(received[i])
  /\ \E i \in 1 .. Len(link) : Len(link[i]) > 7

\* C14: the listener is called exactly for the received frames with a valid
\* checksum, type Message and length at least 2, in order, with opcode
\* (byte6 << 8) | byte7 and the length - 2 bytes after it as payload.
C14_ListenerIffValidMessage ==
  LET fs == SelectSeq(received, IsListenerFrame)
  IN  /\ Len(delivered) = Len(fs)
      /\ \A i \in 1 .. Len(fs) :
           delivered[i] = <<fs[i][7] * 256 + fs[i][8],
                            SubSeq(fs[i], 9, 6 + fs[i][6])>>

\* C14's case: the listener got a frame whose payload was stuffed, and a
\* received Message frame with a valid checksum did not reach it.
C14_Witness ==
  /\ \E i \in 1 .. Len(delivered) : delivered[i] = <<32768, <<kEscapeByte>> >>
  /\ \E i \in 1 .. Len(received) :
       IsValidMessage(received[i]) /\ ~IsListenerFrame(received[i])

\* C15: a received Ack frame has no effect.  The step that finishes a valid
\* Ack frame writes nothing to the link, does not call the listener, and
\* leaves sequence_number_ and the pending-command slot as they were.
C15_AckHasNoEffect ==
  [][(/\ Len(received') = Len(received) + 1
      /\ IsValidAck(received'[Len(received')])) =>
        /\ link' = link /\ built' = built
        /\ delivered' = delivered
        /\ sequence_number_' = sequence_number_
        /\ response_op_code_' = response_op_code_
        /\ response_' = response_
        /\ response_size_' = response_size_]_vars

\* C15's case: Ack frames were received, one of them with a body.
C15_Witness ==
  /\ \E i \in 1 .. Len(received) : IsValidAck(received[i]) /\ received[i][6] = 0
  /\ \E i \in 1 .. Len(received) : IsValidAck(received[i]) /\ received[i][6] > 0

\* C16: whatever bytes the receive loop reads, the process is not
\* terminated: no frame attempt, an escape byte followed by an
\* unrecognized substitute included, ends in abort().
C16_ReceiveLoopNeverAborts == ~aborted

\* C17: once Stop was called, the receive loop has exited by the time the
\* next link read has returned: that read is the last one.
C17_StopEndsLoop ==
  (stopLog.called /\ stopLog.reads >= 1) =>
    (rpc = "off" /\ stopLog.reads = 1)

----------------------------------------------------------------------------
(* Radio: SendCommand, WaitPut and OnPacketReceived.                       *)

\* Bounds: the caller threads, the calls they make in total, and the frames
\* the module sends.
NumCallers == 2
MaxCalls == 2
MaxFrames == 2

Callers == 1 .. NumCallers

\* The calls the callers make: Reset's SendCommand and Reset's WaitPut, each
\* with the size of its response buffer.
Commands ==
  { [kind |-> "SendCommand", req |-> 9, resp |-> 8201, cmd |-> <<>>, size |-> 2],
    [kind |-> "WaitPut", req |-> 0, resp |-> 32768, cmd |-> <<>>, size |-> 2] }

NoCall == [kind |-> "none", req |-> 0, resp |-> 0, cmd |-> <<>>, size |-> 0]

\* What the module sends: SetResetResponse and PutModuleReadyResponse
\* frames, and SetPowerModeResponse frames no caller here waits for, carrying a success status or three other
\* bytes (more than Reset's buffer holds).
RxOps == {8200, 8201, 32768}
RxPayloads == {<<0, 0>>, <<1, 0, 0>>}

\* response_op_code_, response_ and response_size_ have no initializer:
\* the opcode equals an opcode the module sends or none, the size is below
\* or above every payload size received, the pointer designates no buffer
\* of a caller.
InitRadio ==
  /\ mutex_ = Free
  /\ response_op_code_ \in {0, 8201}
  /\ response_ = Wild
  /\ response_size_ \in {0, 4}
  /\ pc = [c \in Callers |-> "idle"]
  /\ call = [c \in Callers |-> NoCall]
  /\ calls = [c \in Callers |-> 0]
  /\ timed_out = [c \in Callers |-> FALSE]
  /\ result = [c \in Callers |-> "none"]
  /\ bufs = [c \in Callers |-> <<>>]
  /\ hpc = "idle" /\ hOp = 0 /\ hPayload = <<>> /\ frames = 0
  /\ seen = [c \in Callers |-> {}]
  /\ deadWrites = {} /\ raceWrites = FALSE /\ overruns = FALSE
  /\ timedOutBufs = {}
  /\ AppIdle

\* The radio is constructed and main's receive thread runs Start.
Init ==
  /\ ndebug \in BOOLEAN
  /\ aborted = FALSE
  /\ sequence_number_ = 0
  /\ receiving_ = TRUE
  /\ link = <<>> /\ rxIn = <<>> /\ rpc = "sync"
  /\ message_buffer = <<>> /\ esc = FALSE /\ delivered = <<>>
  /\ built = {} /\ fed = 0 /\ received = <<>>
  /\ stopLog = [called |-> FALSE, reads |-> 0]
  /\ txOp = 0 /\ txPayload = <<>> /\ txDone = "idle"
  /\ InitRadio

rxVars == <<receiving_, rxIn, rpc, message_buffer, esc, delivered, fed,
            received, stopLog, txOp, txPayload, txDone>>

\* How far caller c is in its call, for the history.
Phase(c) ==
  CASE pc[c] \in {"set_op", "set_buf", "set_size", "send"} -> "pre"
    [] pc[c] = "wait" -> "sent"
    [] pc[c] = "waiting" -> "waiting"
    [] pc[c] = "woken" -> IF timed_out[c] THEN "late" ELSE "woken"

\* Number of calls started so far.
TotalCalls ==
  Cardinality({ck \in Callers \X (1 .. MaxCalls) : ck[2] <= calls[ck[1]]})

\* SendCommand / WaitPut: std::unique_lock<std::mutex> lock(mutex_).  The
\* caller threads are alike, so a thread makes its first call only after
\* the thread before it has made one.
Lock(c, cmd) ==
  /\ ~aborted /\ pc[c] = "idle" /\ TotalCalls < MaxCalls
  /\ IF c = 1 THEN TRUE ELSE calls[c - 1] > 0
  /\ mutex_ = Free
  /\ mutex_' = {c}
  /\ pc' = [pc EXCEPT ![c] = "set_op"]
  /\ call' = [call EXCEPT ![c] = cmd]
  /\ calls' = [calls EXCEPT ![c] = @ + 1]
  /\ timed_out' = [timed_out EXCEPT ![c] = FALSE]
  /\ result' = [result EXCEPT ![c] = "none"]
  /\ bufs' = [bufs EXCEPT ![c] = [i \in 1 .. cmd.size |-> Uninit]]
  /\ seen' = [seen EXCEPT ![c] = {}]
  /\ UNCHANGED <<ndebug, aborted, response_op_code_, response_, response_size_,
                 hpc, hOp, hPayload, frames, deadWrites, raceWrites, overruns,
                 timedOutBufs>>
  /\ UNCHANGED transportVars
  /\ UNCHANGED appVars

\* response_op_code_ = response_op_code;
SetOp(c) ==
  /\ ~aborted /\ pc[c] = "set_op"
  /\ response_op_code_' = call[c].resp
  /\ pc' = [pc EXCEPT ![c] = "set_buf"]
  /\ UNCHANGED <<ndebug, aborted, mutex_, response_, response_size_, call, calls,
                 timed_out, result, bufs, hpc, hOp, hPayload, frames, seen,
                 deadWrites, raceWrites, overruns, timedOutBufs>>
  /\ UNCHANGED transportVars
  /\ UNCHANGED appVars

\* response_ = response;
SetBuf(c) ==
  /\ ~aborted /\ pc[c] = "set_buf"
  /\ response_' = <<c, calls[c]>>
  /\ pc' = [pc EXCEPT ![c] = "set_size"]
  /\ UNCHANGED <<ndebug, aborted, mutex_, response_op_code_, response_size_, call,
                 calls, timed_out, result, bufs, hpc, hOp, hPayload, frames,
                 seen, deadWrites, raceWrites, overruns, timedOutBufs>>
  /\ UNCHANGED transportVars
  /\ UNCHANGED appVars

\* response_size_ = response_size;
SetSize(c) ==
  /\ ~aborted /\ pc[c] = "set_size"
  /\ response_size_' = call[c].size
  /\ pc' = [pc EXCEPT ![c] = IF call[c].kind = "SendCommand" THEN "send" ELSE "wait"]
  /\ UNCHANGED <<ndebug, aborted, mutex_, response_op_code_, response_, call,
                 calls, timed_out, result, bufs, hpc, hOp, hPayload, frames,
                 seen, deadWrites, raceWrites, overruns, timedOutBufs>>
  /\ UNCHANGED transportVars
  /\ UNCHANGED appVars

\* transport_.SendMessageFrame(request_op_code, command, command_size);
Send(c) ==
  /\ ~aborted /\ pc[c] = "send"
  /\ SendMessageFrame(call[c].req, call[c].cmd)
  /\ pc' = [pc EXCEPT ![c] = "wait"]
  /\ UNCHANGED <<ndebug, mutex_, response_op_code_, response_, response_size_,
                 call, calls, timed_out, result, bufs, hpc, hOp, hPayload,
                 frames, seen, deadWrites, raceWrites, overruns, timedOutBufs>>
  /\ UNCHANGED rxVars
  /\ UNCHANGED appVars

\* cv_.wait_for(lock, timeout) begins: the mutex is released and the thread
\* blocks, atomically.
Wait(c) ==
  /\ ~aborted /\ pc[c] = "wait"
  /\ mutex_' = Free
  /\ pc' = [pc EXCEPT ![c] = "waiting"]
  /\ UNCHANGED <<ndebug, aborted, response_op_code_, response_, response_size_,
                 call, calls, timed_out, result, bufs, hpc, hOp, hPayload,
                 frames, seen, deadWrites, raceWrites, overruns, timedOutBufs>>
  /\ UNCHANGED transportVars
  /\ UNCHANGED appVars

\* wait_for: the timeout elapsed (std::cv_status::timeout).
Timeout(c) ==
  /\ ~aborted /\ pc[c] = "waiting"
  /\ pc' = [pc EXCEPT ![c] = "woken"]
  /\ timed_out' = [timed_out EXCEPT ![c] = TRUE]
  /\ UNCHANGED <<ndebug, aborted, mutex_, response_op_code_, response_,
                 response_size_, call, calls, result, bufs, hpc, hOp, hPayload,
                 frames, seen, deadWrites, raceWrites, overruns, timedOutBufs>>
  /\ UNCHANGED transportVars
  /\ UNCHANGED appVars

\* wait_for: unblocked with no notification and before the timeout, as
\* std::condition_variable permits (std::cv_status::no_timeout).
SpuriousWake(c) ==
  /\ ~aborted /\ pc[c] = "waiting"
  /\ pc' = [pc EXCEPT ![c] = "woken"]
  /\ UNCHANGED <<ndebug, aborted, mutex_, response_op_code_, response_,
                 response_size_, call, calls, timed_out, result, bufs, hpc, hOp,
                 hPayload, frames, seen, deadWrites, raceWrites, overruns,
                 timedOutBufs>>
  /\ UNCHANGED transportVars
  /\ UNCHANGED appVars

\* wait_for reacquires the mutex and returns; the call returns !timed_out
\* and the lock's destructor unlocks.
Return(c) ==
  /\ ~aborted /\ pc[c] = "woken"
  /\ mutex_ = Free
  /\ pc' = [pc EXCEPT ![c] = "idle"]
  /\ result' = [result EXCEPT ![c] = IF timed_out[c] THEN "timeout" ELSE "ok"]
  /\ timedOutBufs' = IF timed_out[c] /\ call[c].kind = "SendCommand"
                       THEN timedOutBufs \cup {<< <<c, calls[c]>>, call[c].resp >>}
                       ELSE timedOutBufs
  /\ UNCHANGED <<ndebug, aborted, mutex_, response_op_code_, response_,
                 response_size_, call, calls, timed_out, bufs, hpc, hOp,
                 hPayload, frames, seen, deadWrites, raceWrites, overruns>>
  /\ UNCHANGED transportVars
  /\ UNCHANGED appVars

\* ReceiveFrame has read a Message frame with a valid checksum, the
\* frames-th of the module, carrying op and payload: it writes the Ack and
\* calls OnPacketReceived, which compares op with response_op_code_.  The
\* other branches of OnPacketReceived only log here.  The read of the
\* frame's last byte returned while receiving_ was true.
HDispatch(op, payload) ==
  /\ ~aborted /\ hpc = "idle" /\ frames < MaxFrames
  /\ receiving_
  /\ frames' = frames + 1
  /\ SendAckFrame(ToUInt8(frames))
  /\ IF op = response_op_code_
       THEN hpc' = "copy" /\ hOp' = op /\ hPayload' = payload
       ELSE UNCHANGED <<hpc, hOp, hPayload>>
  /\ seen' = [c \in Callers |->
                IF pc[c] # "idle" /\ call[c].resp = op
                  THEN seen[c] \cup {<<Phase(c), payload>>}
                  ELSE seen[c]]
  /\ UNCHANGED <<ndebug, sequence_number_, mutex_, response_op_code_, response_,
                 response_size_, pc, call, calls, timed_out, result, bufs,
                 deadWrites, raceWrites, overruns, timedOutBufs>>
  /\ UNCHANGED rxVars
  /\ UNCHANGED appVars

\* The buffer response_ designates is that of a call still in progress.
Live(b) == b # Wild /\ pc[b[1]] # "idle" /\ calls[b[1]] = b[2]

\* assert(response_size_ >= payload_size); memcpy(response_, payload,
\* payload_size);
HCopy ==
  /\ ~aborted /\ hpc = "copy"
  /\ IF response_size_ < Len(hPayload) /\ ~ndebug
       THEN /\ aborted' = TRUE
            /\ UNCHANGED <<hpc, bufs, deadWrites, raceWrites, overruns>>
       ELSE /\ aborted' = aborted
            /\ hpc' = "notify"
            /\ IF Live(response_)
                 THEN LET c == response_[1]
                      IN  /\ bufs' = [bufs EXCEPT ![c] =
                                 [i \in 1 .. Len(bufs[c]) |->
                                    IF i <= Len(hPayload) THEN hPayload[i]
                                    ELSE bufs[c][i]]]
                          /\ overruns' = (overruns \/ Len(hPayload) > Len(bufs[c]))
                          /\ raceWrites' =
                               (raceWrites \/ (/\ hOp # call[c].resp
                                               /\ \E t \in timedOutBufs : t[2] = hOp))
                          /\ UNCHANGED deadWrites
                 ELSE /\ deadWrites' = deadWrites \cup
                            {<<response_, \E c \in Callers : pc[c] # "idle">>}
                      /\ UNCHANGED <<bufs, raceWrites, overruns>>
  /\ UNCHANGED <<ndebug, mutex_, response_op_code_, response_, response_size_,
                 pc, call, calls, timed_out, result, hOp, hPayload, frames,
                 seen, timedOutBufs>>
  /\ UNCHANGED transportVars
  /\ UNCHANGED appVars

\* cv_.notify_one(): one of the threads blocked in wait_for is unblocked,
\* if there is any.
HNotify ==
  /\ ~aborted /\ hpc = "notify"
  /\ hpc' = "idle" /\ hOp' = 0 /\ hPayload' = <<>>
  /\ \/ /\ \A c \in Callers : pc[c] # "waiting"
        /\ pc' = pc
     \/ \E w \in Callers : /\ pc[w] = "waiting"
                           /\ pc' = [pc EXCEPT ![w] = "woken"]
  /\ seen' = [c \in Callers |->
                IF /\ pc[c] \in {"wait", "waiting"}
                   /\ call[c].resp = hOp
                  THEN seen[c] \cup {<<"signalled", <<>> >>}
                  ELSE seen[c]]
  /\ UNCHANGED <<ndebug, aborted, mutex_, response_op_code_, response_,
                 response_size_, call, calls, timed_out, result, bufs, frames,
                 deadWrites, raceWrites, overruns, timedOutBufs>>
  /\ UNCHANGED transportVars
  /\ UNCHANGED appVars

Next ==
  \/ \E c \in Callers, cmd \in Commands : Lock(c, cmd)
  \/ \E c \in Callers : SetOp(c)
  \/ \E c \in Callers : SetBuf(c)
  \/ \E c \in Callers : SetSize(c)
  \/ \E c \in Callers : Send(c)
  \/ \E c \in Callers : Wait(c)
  \/ \E c \in Callers : Timeout(c)
  \/ \E c \in Callers : SpuriousWake(c)
  \/ \E c \in Callers : Return(c)
  \/ \E op \in RxOps, payload \in RxPayloads : HDispatch(op, payload)
  \/ HCopy
  \/ HNotify
  \/ Stop

Spec == Init /\ [][Next]_vars

----------------------------------------------------------------------------
(* Properties of the correlator, checked under Spec.                       *)

\* Caller c has written the whole slot and has not returned.
Registered(c) == pc[c] \in {"send", "wait", "waiting", "woken"}

\* Caller c has written the slot's opcode in a call it has not returned from.
WroteSlot(c) == pc[c] \in {"set_buf", "set_size", "send", "wait", "waiting", "woken"}

\* Caller c's call has returned and was a SendCommand.
Returned(c) == pc[c] = "idle" /\ call[c].kind = "SendCommand"

\* C1: at most one command is pending.  While a caller is between
\* registering its opcode and buffer and returning, no other caller has
\* overwritten the slot (nor, after that, sent its request).
C1_OnePendingCommand ==
  \A c \in Callers, d \in Callers :
    c # d => ~(Registered(c) /\ WroteSlot(d))

\* C2: no lost wake-up.  A SendCommand during which a frame with the expected
\* opcode was dispatched, and its arrival signalled, after the request was
\* sent and before the timeout elapsed (before wait_for blocked, or while it
\* was blocked) returns success.
C2_NoLostWakeup ==
  \A c \in Callers :
    (/\ Returned(c)
     /\ \E s \in seen[c] : s[1] \in {"sent", "waiting"}
     /\ \E s \in seen[c] : s[1] = "signalled")
      => result[c] = "ok"

\* C3: SendCommand returns success only if a frame with the expected opcode
\* was dispatched during the call, and the caller's buffer then holds that
\* frame's payload; otherwise it returns a timeout, after the timeout has
\* elapsed.
C3_SuccessMeansResponse ==
  \A c \in Callers :
    Returned(c) =>
      IF result[c] = "ok"
        THEN \E s \in seen[c] : /\ Len(s[2]) <= Len(bufs[c])
                                /\ SubSeq(bufs[c], 1, Len(s[2])) = s[2]
        ELSE result[c] = "timeout" /\ timed_out[c]

\* C4: a SendCommand that has returned, and during which no frame with the
\* expected opcode was dispatched before the deadline, returned a timeout;
\* and a caller that has returned does not hold the mutex, so the next call
\* can take it.
C4_TimeoutLeavesCorrelatorReady ==
  \A c \in Callers :
    Returned(c) =>
      /\ (\A s \in seen[c] : s[1] = "late") => result[c] = "timeout"
      /\ c \notin mutex_

\* C5: stale-response tolerance.  A frame answering a call that returned a
\* timeout is never copied into that call's abandoned buffer while no
\* command is pending, nor into the buffer of a later call that expects
\* another opcode.
C5_StaleResponseIgnored ==
  /\ \A w \in deadWrites :
       ~(w[2] = FALSE /\ \E t \in timedOutBufs : t[1] = w[1])
  /\ ~raceWrites

\* C6: the slot is accessed under the mutex.  While OnPacketReceived copies
\* through response_ and signals, the receive thread holds mutex_, and no
\* caller is writing the slot.
C6_SlotAccessUnderMutex ==
  hpc \in {"copy", "notify"} =>
    /\ ReceiveThread \in mutex_
    /\ \A c \in Callers : pc[c] \notin {"set_op", "set_buf", "set_size"}

\* C18: Stop neither wakes nor fails a caller blocked in SendCommand or
\* WaitPut.  The step that calls Stop leaves every caller where it is, and a
\* caller blocked in wait_for once Stop was called leaves it only because
\* its deadline elapsed or because OnPacketReceived signals a frame with the
\* opcode the caller expects.
C18_StopLeavesCallersBlocked ==
  [][/\ (stopLog'.called /\ ~stopLog.called) =>
          (pc' = pc /\ timed_out' = timed_out /\ result' = result)
     /\ \A c \in Callers :
          (stopLog.called /\ pc[c] = "waiting" /\ pc'[c] # "waiting") =>
            \/ timed_out'[c]
            \/ hpc = "notify" /\ hOp = call[c].resp]_vars

----------------------------------------------------------------------------
(* Radio: decoding of metadata and of the responses.  A buffer is the      *)
(* sequence of the bytes that were written to it; a read of the C index i  *)
(* at or beyond them finds a byte that was never written, whose value g is *)
(* indeterminate.                                                          *)

\* Values an indeterminate byte is read as.
Garbage == {0, 1}

\* buffer[i] in C.
ReadAt(buffer, i, g) == IF i < Len(buffer) THEN buffer[i + 1] ELSE g

\* The size ParseMetadata is given by GetChannelDescriptor: above every
\* offset the decode reaches.
SIZE_MAX == 2147483647

\* enum class MetadataType
MetadataType ==
  [Artist |-> 1, Title |-> 2, Album |-> 3, RecordLabel |-> 4, Composer |-> 6,
   AltArtist |-> 7, Comments |-> 8, PromoText1 |-> 32, PromoText2 |-> 33,
   PromoText3 |-> 34, PromoText4 |-> 35, SongId |-> 134, ArtistId |-> 136,
   Empty |-> 224]

\* struct Metadata as its constructor leaves it: every std::optional is
\* empty (<<>>; a set one is <<str>>) and promo_text has no element.
Metadata ==
  [artist |-> <<>>, title |-> <<>>, album |-> <<>>, record_label |-> <<>>,
   composer |-> <<>>, alt_artist |-> <<>>, comments |-> <<>>,
   promo_text |-> <<>>]

\* A PopulateMetadataEventField that keeps a string of an unsupported type
\* as the comments.
PopulateMetadataEventFieldKeepsUnsupported(data, str_type, str) ==
  CASE str_type = MetadataType.Artist -> [data EXCEPT !.artist = <<str>>]
    [] str_type = MetadataType.Title -> [data EXCEPT !.title = <<str>>]
    [] str_type = MetadataType.Album -> [data EXCEPT !.album = <<str>>]
    [] str_type = MetadataType.RecordLabel ->
         [data EXCEPT !.record_label = <<str>>]
    [] str_type = MetadataType.Composer -> [data EXCEPT !.composer = <<str>>]
    [] str_type = MetadataType.AltArtist ->
         [data EXCEPT !.alt_artist = <<str>>]
    [] str_type = MetadataType.Comments -> [data EXCEPT !.comments = <<str>>]
    [] str_type \in {MetadataType.PromoText1, MetadataType.PromoText2,
                     MetadataType.PromoText3, MetadataType.PromoText4} ->
         [data EXCEPT !.promo_text = Append(@, str)]
    [] str_type \in {MetadataType.SongId, MetadataType.ArtistId,
                     MetadataType.Empty} -> data
    [] OTHER -> [data EXCEPT !.comments = <<str>>]

\* void Radio::PopulateMetadataEventField(data, str_type, str): SongId,
\* ArtistId and Empty are ignored, any other type is logged.
PopulateMetadataEventField(data, str_type, str) ==
  CASE str_type = MetadataType.Artist -> [data EXCEPT !.artist = <<str>>]
    [] str_type = MetadataType.Title -> [data EXCEPT !.title = <<str>>]
    [] str_type = MetadataType.Album -> [data EXCEPT !.album = <<str>>]
    [] str_type = MetadataType.RecordLabel ->
         [data EXCEPT !.record_label = <<str>>]
    [] str_type = MetadataType.Composer -> [data EXCEPT !.composer = <<str>>]
    [] str_type = MetadataType.AltArtist ->
         [data EXCEPT !.alt_artist = <<str>>]
    [] str_type = MetadataType.Comments -> [data EXCEPT !.comments = <<str>>]
    [] str_type \in {MetadataType.PromoText1, MetadataType.PromoText2,
                     MetadataType.PromoText3, MetadataType.PromoText4} ->
         [data EXCEPT !.promo_text = Append(@, str)]
    [] str_type \in {MetadataType.SongId, MetadataType.ArtistId,
                     MetadataType.Empty} -> data
    [] OTHER -> data

\* The larger of two indices.
Highest(a, b) == IF a >= b THEN a ELSE b

\* The for loop of ParseMetadata with fields iterations left, at
\* parsing_offset; top is the highest index of payload read so far.
RECURSIVE ParseFields(_, _, _, _, _, _, _)
ParseFields(payload, size, g, fields, parsing_offset, data, top) ==
  IF fields = 0
    THEN [success |-> TRUE, data |-> data, top |-> top]
    ELSE IF parsing_offset + 1 >= size
      THEN [success |-> FALSE, data |-> data, top |-> top]
      ELSE
        LET str_type == ReadAt(payload, parsing_offset, g)
            length == ReadAt(payload, parsing_offset + 1, g)
            offset == parsing_offset + 2
        IN  IF offset + length - 1 >= size
              THEN [success |-> FALSE, data |-> data,
                    top |-> Highest(top, parsing_offset + 1)]
              ELSE
                LET str == [k \in 1 .. length |->
                              ReadAt(payload, offset + k - 1, g)]
                IN  ParseFields(payload, size, g, fields - 1, offset + length,
                                PopulateMetadataEventField(data, str_type, str),
                                Highest(top, offset + length - 1))

\* A ParseMetadata that accepts a field header up to one byte past size.
ParseMetadataLaxHeader(payload, size, data, g) ==
  IF size < 2
    THEN [success |-> FALSE, data |-> data, top |-> -1]
    ELSE ParseFields(payload, size + 1, g, ReadAt(payload, 0, g), 1, data, 0)

\* bool Radio::ParseMetadata(payload, size, data)
ParseMetadata(payload, size, data, g) ==
  IF size < 2
    THEN [success |-> FALSE, data |-> data, top |-> -1]
    ELSE ParseFields(payload, size, g, ReadAt(payload, 0, g), 1, data, 0)

\* A HandleMetadataPacket that goes on from the Metadata of the call before.
HandleMetadataPacketKeepsData(payload) ==
  IF Len(payload) < 2
    THEN [called |-> FALSE, channel_id |-> 0, data |-> Metadata, top |-> -1]
    ELSE
      LET r == ParseMetadata(Tail(payload), Len(payload) - 1,
                             IF events = <<>> THEN Metadata
                             ELSE events[Len(events)][2], 0)
      IN  [called |-> r.success, channel_id |-> payload[1], data |-> r.data,
           top |-> r.top + 1]

\* void Radio::HandleMetadataPacket(payload, size), with size the length of
\* payload: whether event_handler_->OnMetadataChange is called, and with
\* what.  top is the highest index of payload read.
HandleMetadataPacket(payload) ==
  IF Len(payload) < 2
    THEN [called |-> FALSE, channel_id |-> 0, data |-> Metadata, top |-> -1]
    ELSE
      LET r == ParseMetadata(Tail(payload), Len(payload) - 1, Metadata, 0)
      IN  [called |-> r.success, channel_id |-> payload[1], data |-> r.data,
           top |-> r.top + 1]

\* static uint16_t Transport::UnpackUInt16(buffer)
UnpackUInt16(buffer, g) == ReadAt(buffer, 1, g) * 256 + ReadAt(buffer, 0, g)

\* static Status Radio::UnpackStatus(buffer); Status::Success is 0.
UnpackStatus(buffer, g) == UnpackUInt16(buffer, g)

\* static bool Radio::SignalStrengthIsValid(value): None (0) to Excellent (3)
SignalStrengthIsValid(value) == value >= 0 /\ value <= 3

----------------------------------------------------------------------------
(* Radio: the derived operations, called one after another by one thread   *)
(* (main), while the receive thread calls OnPacketReceived.  SendCommand   *)
(* and WaitPut write the slot in one step here; the steps of two callers   *)
(* inside them are taken apart in Spec.                                    *)

\* Bounds: the operations one run calls and the frames the module sends.
MaxOps == 1
MaxDispatch == 3

\* The thread that calls the operations.
MainThread == 1

\* enum class OpCode.  The enumerators after PutModuleReadyResponse are used
\* by radio.cpp by name; their values here are only distinct from the
\* others.
OpCode ==
  [SetPowerModeRequest |-> 8, SetPowerModeResponse |-> 8200,
   SetResetRequest |-> 9, SetResetResponse |-> 8201,
   SetChannelRequest |-> SetChannelRequest, SetChannelResponse |-> 8202,
   GetSignalRequest |-> 16408, GetSignalResponse |-> 24600,
   PutModuleReadyResponse |-> 32768,
   SetFeatureMonitorRequest |-> 13, SetFeatureMonitorResponse |-> 8205,
   GetChannelListRequest |-> 16400, GetChannelListResponse |-> 24592,
   GetChannelRequest |-> 16401, GetChannelResponse |-> 24593,
   PutPdtResponse |-> 32769]

\* The request SetMonitoringState sends: the flag is bit 3 of the fourth
\* byte.
SetMonitoringStateRequest(enabled) ==
  <<0, 0, 0, (IF enabled THEN 8 ELSE 0), 0>>

\* The operations of Radio with the arguments main gives them, each with
\* the SendCommand it makes: opcodes, request payload, sizeof(response).
Operations ==
  { [name |-> "Reset", arg |-> 0, req |-> OpCode.SetResetRequest,
     resp |-> OpCode.SetResetResponse, cmd |-> <<>>, size |-> 2],
    [name |-> "SetPowerMode", arg |-> 3, req |-> OpCode.SetPowerModeRequest,
     resp |-> OpCode.SetPowerModeResponse, cmd |-> <<3>>, size |-> 4],
    [name |-> "SetChannel", arg |-> 51, req |-> OpCode.SetChannelRequest,
     resp |-> OpCode.SetChannelResponse, cmd |-> SetChannelPayload(51),
     size |-> UINT8_MAX],
    [name |-> "GetSignalStrength", arg |-> 0, req |-> OpCode.GetSignalRequest,
     resp |-> OpCode.GetSignalResponse, cmd |-> <<>>, size |-> 6],
    [name |-> "GetChannelList", arg |-> 0,
     req |-> OpCode.GetChannelListRequest,
     resp |-> OpCode.GetChannelListResponse, cmd |-> <<0, 1, 224, 0>>,
     size |-> UINT8_MAX],
    [name |-> "GetChannelDescriptor", arg |-> 51,
     req |-> OpCode.GetChannelRequest, resp |-> OpCode.GetChannelResponse,
     cmd |-> <<51, 0, 0, 0>>, size |-> UINT8_MAX] }

\* SetGlobalMetadataMonitoringEnabled(true) and (false).
MonitoringOperations ==
  { [name |-> "SetGlobalMetadataMonitoringEnabled", arg |-> b,
     req |-> OpCode.SetFeatureMonitorRequest,
     resp |-> OpCode.SetFeatureMonitorResponse,
     cmd |-> SetMonitoringStateRequest(b = 1), size |-> 2] : b \in {0, 1} }

\* The operation of that name.
OperationOf(name) ==
  CHOOSE o \in Operations \cup MonitoringOperations : o.name = name

\* The response array holds the bytes written to it so far.
Memcpy(buffer, payload) ==
  [size |-> buffer.size,
   data |-> [i \in 1 .. Highest(Len(buffer.data),
                                IF Len(payload) <= buffer.size
                                  THEN Len(payload) ELSE buffer.size) |->
               IF i <= Len(payload) THEN payload[i] ELSE buffer.data[i]]]

\* &buffer[offset] in C: the bytes written from offset on.
From(buffer, offset) ==
  IF offset >= Len(buffer) THEN <<>>
  ELSE SubSeq(buffer, offset + 1, Len(buffer))

\* std::string(&buffer[offset], length)
ReadString(buffer, offset, length, g) ==
  [k \in 1 .. length |-> ReadAt(buffer, offset + k - 1, g)]

\* What the code of an operation does once SendCommand or WaitPut has
\* returned success: whether it calls WaitPut (again), else what it returns
\* and writes through its output pointers (out); top is the highest index
\* of response it has read.

\* A status test that takes every status for Status::Success.
StatusOnlyAnyStatus(success, buffer, g) ==
  [again |-> FALSE, success |-> success, out |-> <<>>,
   top |-> IF success THEN 1 ELSE -1]

\* SetPowerMode, SetChannel and SetMonitoringState after SendCommand:
\* success = (UnpackStatus(response) == Status::Success).
StatusOnly(success, buffer, g) ==
  [again |-> FALSE, success |-> success /\ UnpackStatus(buffer, g) = 0,
   out |-> <<>>, top |-> IF success THEN 1 ELSE -1]

\* bool Radio::Reset(): after SendCommand the status test, then
\* do { success = WaitPut(...); } while (success && response[0] != 0);
Reset(kind, success, buffer, g) ==
  IF kind = "SendCommand"
    THEN [again |-> success /\ UnpackStatus(buffer, g) = 0,
          success |-> FALSE, out |-> <<>>, top |-> IF success THEN 1 ELSE -1]
    ELSE [again |-> success /\ ReadAt(buffer, 0, g) # 0,
          success |-> success, out |-> <<>>,
          top |-> IF success THEN 0 ELSE -1]

\* bool Radio::GetSignalStrength(summary, satellite, terrestrial) after
\* SendCommand: the three outputs are written whether or not they are valid.
GetSignalStrength(success, buffer, g) ==
  IF ~success
    THEN [again |-> FALSE, success |-> FALSE, out |-> <<>>, top |-> -1]
    ELSE IF UnpackStatus(buffer, g) # 0
      THEN [again |-> FALSE, success |-> FALSE, out |-> <<>>, top |-> 1]
      ELSE [again |-> FALSE,
            success |-> /\ SignalStrengthIsValid(ReadAt(buffer, 2, g))
                        /\ SignalStrengthIsValid(ReadAt(buffer, 3, g))
                        /\ SignalStrengthIsValid(ReadAt(buffer, 4, g)),
            out |-> <<ReadAt(buffer, 2, g), ReadAt(buffer, 3, g),
                      ReadAt(buffer, 4, g)>>,
            top |-> 4]

\* bool Radio::GetChannelList(channels) after SendCommand: response[2]
\* channel ids from response[3] on.
GetChannelList(success, buffer, g) ==
  IF ~success
    THEN [again |-> FALSE, success |-> FALSE, out |-> <<>>, top |-> -1]
    ELSE IF UnpackStatus(buffer, g) # 0
      THEN [again |-> FALSE, success |-> FALSE, out |-> <<>>, top |-> 1]
      ELSE LET channel_count == ReadAt(buffer, 2, g)
           IN  [again |-> FALSE, success |-> TRUE,
                out |-> ReadString(buffer, 3, channel_count, g),
                top |-> 2 + channel_count]

\* bool Radio::GetChannelDescriptor(channel_id, descriptor) after
\* SendCommand: two fixed fields, four strings each behind its length, then
\* ParseMetadata from the offset reached, whose result is dropped.
GetChannelDescriptor(success, buffer, g) ==
  IF ~success
    THEN [again |-> FALSE, success |-> FALSE, out |-> <<>>, top |-> -1]
    ELSE IF UnpackStatus(buffer, g) # 0
      THEN [again |-> FALSE, success |-> FALSE, out |-> <<>>, top |-> 1]
      ELSE
        LET length1 == ReadAt(buffer, 7, g)
            offset2 == 8 + length1
            length2 == ReadAt(buffer, offset2, g)
            offset3 == offset2 + 1 + length2
            length3 == ReadAt(buffer, offset3, g)
            offset4 == offset3 + 1 + length3
            length4 == ReadAt(buffer, offset4, g)
            offset == offset4 + 1 + length4
            parsed == ParseMetadata(From(buffer, offset), SIZE_MAX,
                                    Metadata, g)
        IN  [again |-> FALSE, success |-> TRUE,
             out |-> [channel_id |-> ReadAt(buffer, 2, g),
                      category_id |-> ReadAt(buffer, 4, g),
                      short_name |-> ReadString(buffer, 8, length1, g),
                      long_name |-> ReadString(buffer, offset2 + 1, length2, g),
                      short_category_name |->
                        ReadString(buffer, offset3 + 1, length3, g),
                      long_category_name |->
                        ReadString(buffer, offset4 + 1, length4, g),
                      metadata |-> parsed.data],
             top |-> offset + parsed.top]

\* The code of the operation the thread is in.
After(o, buffer, g) ==
  LET success == ~o.timed_out
  IN  CASE o.name = "Reset" -> Reset(o.kind, success, buffer, g)
        [] o.name = "GetSignalStrength" ->
             GetSignalStrength(success, buffer, g)
        [] o.name = "GetChannelList" -> GetChannelList(success, buffer, g)
        [] o.name = "GetChannelDescriptor" ->
             GetChannelDescriptor(success, buffer, g)
        [] OTHER -> StatusOnly(success, buffer, g)

\* The variables the operations leave alone.
opsIdle == <<ndebug, receiving_, rxIn, rpc, message_buffer, esc, delivered,
             fed, received, stopLog, txOp, txPayload, txDone, pc, call, calls,
             timed_out, result, bufs, hpc, hOp, hPayload, frames, seen,
             deadWrites, raceWrites, overruns, timedOutBufs, wr, tty>>

\* The slot as the constructor leaves it: response_op_code_, response_ and
\* response_size_ have no initializer.
InitOps(slots) ==
  /\ ndebug \in BOOLEAN
  /\ aborted = FALSE
  /\ sequence_number_ = 0
  /\ receiving_ = TRUE
  /\ link = <<>> /\ rxIn = <<>> /\ rpc = "sync"
  /\ message_buffer = <<>> /\ esc = FALSE /\ delivered = <<>>
  /\ built = {} /\ fed = 0 /\ received = <<>>
  /\ stopLog = [called |-> FALSE, reads |-> 0]
  /\ txOp = 0 /\ txPayload = <<>> /\ txDone = "idle"
  /\ mutex_ = Free
  /\ \E slot \in slots : response_op_code_ = slot[1] /\ response_size_ = slot[2]
  /\ response_ = Wild
  /\ pc = <<>> /\ call = <<>> /\ calls = <<>> /\ timed_out = <<>>
  /\ result = <<>> /\ bufs = <<>>
  /\ hpc = "idle" /\ hOp = 0 /\ hPayload = <<>> /\ frames = 0
  /\ seen = <<>>
  /\ deadWrites = {} /\ raceWrites = FALSE /\ overruns = FALSE
  /\ timedOutBufs = {}
  /\ AppIdle

\* An operation is entered and calls SendCommand, which locks mutex_,
\* writes the slot and sends the request.  SetGlobalMetadataMonitoringEnabled
\* writes the flag first.
SendCommand(o) ==
  /\ ~aborted /\ oper.stage = "idle" /\ ret.n < MaxOps
  /\ mutex_ = Free
  /\ global_metadata_monitoring_enabled_' =
       IF o.name = "SetGlobalMetadataMonitoringEnabled"
         THEN o.arg = 1 ELSE global_metadata_monitoring_enabled_
  /\ mutex_' = {MainThread}
  /\ response_op_code_' = o.resp
  /\ response_' = <<MainThread, ret.n + 1>>
  /\ response_size_' = o.size
  /\ SendMessageFrame(o.req, o.cmd)
  /\ oper' = [name |-> o.name, arg |-> o.arg, kind |-> "SendCommand",
              stage |-> "wait", timed_out |-> FALSE, sent |-> 1,
              got |-> <<>>]
  /\ response' = [size |-> o.size, data |-> <<>>]
  /\ inflight' = Append(inflight, o.name)
  /\ UNCHANGED <<ret, events, pdtLog>>
  /\ UNCHANGED opsIdle

\* cv_.wait_for(lock, timeout) begins: the mutex is released and the thread
\* blocks.
WaitFor ==
  /\ ~aborted /\ oper.stage = "wait"
  /\ mutex_' = Free
  /\ oper' = [oper EXCEPT !.stage = "waiting"]
  /\ UNCHANGED <<aborted, sequence_number_, link, built, response_op_code_,
                 response_, response_size_,
                 global_metadata_monitoring_enabled_, response, ret, events,
                 pdtLog, inflight>>
  /\ UNCHANGED opsIdle

\* wait_for: the timeout elapsed.
WaitTimeout ==
  /\ ~aborted /\ oper.stage = "waiting"
  /\ oper' = [oper EXCEPT !.stage = "woken", !.timed_out = TRUE]
  /\ UNCHANGED <<aborted, sequence_number_, link, built, mutex_,
                 response_op_code_, response_, response_size_,
                 global_metadata_monitoring_enabled_, response, ret, events,
                 pdtLog, inflight>>
  /\ UNCHANGED opsIdle

\* wait_for: unblocked with no notification and before the timeout.
WaitSpurious ==
  /\ ~aborted /\ oper.stage = "waiting"
  /\ oper' = [oper EXCEPT !.stage = "woken"]
  /\ UNCHANGED <<aborted, sequence_number_, link, built, mutex_,
                 response_op_code_, response_, response_size_,
                 global_metadata_monitoring_enabled_, response, ret, events,
                 pdtLog, inflight>>
  /\ UNCHANGED opsIdle

\* wait_for reacquires the mutex; SendCommand or WaitPut returns !timed_out
\* and unlocks.
PrimitiveReturns ==
  /\ ~aborted /\ oper.stage = "woken"
  /\ mutex_ = Free
  /\ oper' = [oper EXCEPT !.stage = "run"]
  /\ UNCHANGED <<aborted, sequence_number_, link, built, mutex_,
                 response_op_code_, response_, response_size_,
                 global_metadata_monitoring_enabled_, response, ret, events,
                 pdtLog, inflight>>
  /\ UNCHANGED opsIdle

\* Reset calls WaitPut(PutModuleReadyResponse, response, sizeof(response),
\* 5000ms), which locks mutex_ and writes the slot.
WaitPut(g) ==
  /\ ~aborted /\ oper.stage = "run"
  /\ After(oper, response.data, g).again
  /\ mutex_ = Free
  /\ mutex_' = {MainThread}
  /\ response_op_code_' = OpCode.PutModuleReadyResponse
  /\ response_' = <<MainThread, ret.n + 1>>
  /\ response_size_' = response.size
  /\ oper' = [oper EXCEPT !.kind = "WaitPut", !.stage = "wait",
                          !.timed_out = FALSE]
  /\ UNCHANGED <<aborted, sequence_number_, link, built,
                 global_metadata_monitoring_enabled_, response, ret, events,
                 pdtLog, inflight>>
  /\ UNCHANGED opsIdle

\* The operation returns; its response array is gone.
OperationReturns(g) ==
  /\ ~aborted /\ oper.stage = "run"
  /\ LET r == After(oper, response.data, g)
     IN  /\ ~r.again
         /\ ret' = [n |-> ret.n + 1, name |-> oper.name, arg |-> oper.arg,
                    success |-> r.success, out |-> r.out, top |-> r.top,
                    sent |-> oper.sent, got |-> oper.got,
                    kind |-> oper.kind, timed_out |-> oper.timed_out,
                    data |-> response.data, frames |-> Len(pdtLog)]
  /\ oper' = NoOp
  /\ response' = NoBuffer
  /\ UNCHANGED <<aborted, sequence_number_, link, built, mutex_,
                 response_op_code_, response_, response_size_,
                 global_metadata_monitoring_enabled_, events, pdtLog,
                 inflight>>
  /\ UNCHANGED opsIdle

\* The branch OnPacketReceived takes for a frame.
RouteIgnoresMonitoring(op_code) ==
  IF op_code = response_op_code_ THEN "response"
  ELSE IF op_code = OpCode.PutPdtResponse THEN "metadata"
  ELSE "log"

\* void Radio::OnPacketReceived: the if / else if chain.
Route(op_code) ==
  IF op_code = response_op_code_ THEN "response"
  ELSE IF op_code = OpCode.PutPdtResponse
    THEN IF global_metadata_monitoring_enabled_ THEN "metadata" ELSE "log"
  ELSE "log"

\* response_ designates the response array of the operation in progress.
LiveResponse == oper.stage # "idle" /\ response_ = <<MainThread, ret.n + 1>>

\* void Radio::OnPacketReceived(op_code, payload, payload_size), called by
\* ReceiveFrame for a valid Message frame it has acknowledged; it runs
\* without the mutex.
OnPacketReceived(op_code, payload) ==
  /\ ~aborted /\ Len(pdtLog) < MaxDispatch
  /\ LET route == Route(op_code)
         handled == HandleMetadataPacket(payload)
     IN  /\ pdtLog' = Append(pdtLog,
                        [op_code |-> op_code, payload |-> payload,
                         route |-> route, blocked |-> oper.stage = "waiting",
                         top |-> IF route = "metadata" THEN handled.top
                                 ELSE -1])
         /\ IF route = "response"
              THEN IF response_size_ < Len(payload) /\ ~ndebug
                     THEN /\ aborted' = TRUE
                          /\ UNCHANGED <<oper, response, events>>
                     ELSE /\ aborted' = aborted
                          /\ response' = IF LiveResponse
                                           THEN Memcpy(response, payload)
                                           ELSE response
                          /\ oper' =
                               [oper EXCEPT
                                  !.got = IF LiveResponse
                                            THEN Append(@, <<op_code, payload>>)
                                            ELSE @,
                                  !.stage = IF @ = "waiting" THEN "woken"
                                            ELSE @]
                          /\ events' = events
              ELSE /\ events' =
                        IF route = "metadata" /\ handled.called
                          THEN Append(events, <<handled.channel_id,
                                                handled.data,
                                                Len(pdtLog) + 1>>)
                          ELSE events
                   /\ UNCHANGED <<aborted, oper, response>>
  /\ UNCHANGED <<sequence_number_, link, built, mutex_, response_op_code_,
                 response_, response_size_,
                 global_metadata_monitoring_enabled_, ret>>
  /\ UNCHANGED opsIdle

\* The module answers the oldest request it has not answered.
ModuleResponds(payload) ==
  /\ inflight # <<>>
  /\ OnPacketReceived(OperationOf(Head(inflight)).resp, payload)
  /\ inflight' = Tail(inflight)

\* The module sends a frame no request asked for.
ModulePushes(op_code, payload) ==
  /\ OnPacketReceived(op_code, payload)
  /\ inflight' = inflight

----------------------------------------------------------------------------
(* SpecMeta: metadata monitoring is switched on and off while the module   *)
(* pushes PutPdtResponse frames.                                           *)

\* Bound: the PutPdtResponse frames of one run.
MaxPdt == 2

\* Field lists of metadata frames, each field <<type, string>>: an artist
\* and a title; the artist twice around record label, composer and
\* alternate artist; promo texts and a title around and after a field of a
\* type that is no MetadataType (9); such a field before a title; an empty
\* album, a song id and comments; no field.
FieldLists ==
  { << <<1, <<65, 66>> >>, <<2, <<67>> >> >>,
    << <<1, <<65>> >>, <<4, <<76>> >>, <<6, <<77>> >>, <<7, <<78>> >>,
       <<1, <<66>> >> >>,
    << <<32, <<80>> >>, <<9, <<88, 89>> >>, <<35, <<83>> >>,
       <<34, <<82>> >>, <<33, <<81>> >> >>,
    << <<9, <<88>> >>, <<2, <<67>> >> >>,
    << <<3, <<>> >>, <<134, <<7>> >>, <<8, <<90>> >> >>,
    << >> }

\* The bytes of the fields: type, length, string.
RECURSIVE FieldBytes(_)
FieldBytes(fields) ==
  IF fields = <<>> THEN <<>>
  ELSE <<fields[1][1], Len(fields[1][2])>> \o fields[1][2]
         \o FieldBytes(Tail(fields))

\* A PutPdtResponse payload: channel id, field count, fields.
MetadataFrame(channel_id, fields) ==
  <<channel_id, Len(fields)>> \o FieldBytes(fields)

\* The channel the frames are about.
PdtChannel == 5

WellFormed == {MetadataFrame(PdtChannel, fields) : fields \in FieldLists}

\* The first frame cut short inside the first header, inside the first
\* string, before the second header and before the second string: each of
\* them declares a field whose header or string lies past its end.
CutFrame == MetadataFrame(PdtChannel, << <<1, <<65, 66>> >>, <<2, <<67>> >> >>)

Truncations == {SubSeq(CutFrame, 1, n) : n \in {3, 5, 6, 8}}

MetadataPayloads == WellFormed \cup Truncations \cup {<<PdtChannel>>}

\* SetFeatureMonitorResponse payloads: Status::Success and another status.
StatusResponses == {<<0, 0>>, <<1, 0>>}

\* Number of PutPdtResponse frames dispatched.
Pdts ==
  Cardinality({i \in 1 .. Len(pdtLog) :
                 pdtLog[i].op_code = OpCode.PutPdtResponse})

\* The module pushes a PutPdtResponse frame.
PutPdt(payload) ==
  /\ Pdts < MaxPdt
  /\ ModulePushes(OpCode.PutPdtResponse, payload)

InitMeta == InitOps({<<0, 0>>, <<OpCode.PutPdtResponse, 4>>})

NextMeta ==
  \/ \E o \in MonitoringOperations : SendCommand(o)
  \/ WaitFor
  \/ WaitTimeout
  \/ WaitSpurious
  \/ PrimitiveReturns
  \/ \E g \in Garbage : OperationReturns(g)
  \/ \E payload \in StatusResponses : ModuleResponds(payload)
  \/ \E payload \in MetadataPayloads : PutPdt(payload)

SpecMeta == InitMeta /\ [][NextMeta]_vars

----------------------------------------------------------------------------
(* Properties of the metadata path, checked under SpecMeta.                *)

\* The listener was called for the i-th frame dispatched.
Surfaced(i) == \E e \in 1 .. Len(events) : events[e][3] = i

\* The OnMetadataChange call made for the i-th frame.
EventOf(i) == events[CHOOSE e \in 1 .. Len(events) : events[e][3] = i]

\* C21: a PutPdtResponse frame that is not the pending opcode reaches the
\* metadata listener exactly when monitoring is enabled as it is dispatched
\* and its payload decodes; with monitoring disabled no step calls the
\* listener; and the dispatch of such a frame neither wakes the caller nor
\* writes its response array.
C21_PdtRouting ==
  [][/\ ~global_metadata_monitoring_enabled_ => events' = events
     /\ (/\ Len(pdtLog') = Len(pdtLog) + 1
         /\ pdtLog'[Len(pdtLog')].op_code = OpCode.PutPdtResponse
         /\ response_op_code_ # OpCode.PutPdtResponse)
          => /\ (Len(events') = Len(events) + 1) <=>
                  (/\ global_metadata_monitoring_enabled_
                   /\ HandleMetadataPacket(pdtLog'[Len(pdtLog')].payload).called)
             /\ Len(events') \in {Len(events), Len(events) + 1}
             /\ oper' = oper /\ response' = response]_vars

\* C21 witness: one decodable PutPdtResponse frame was dropped with
\* monitoring disabled; another one, dispatched while the caller was
\* blocked in wait_for, reached the listener, and the caller is still
\* blocked with nothing in its response array.
C21_Witness ==
  \E i, j \in 1 .. Len(pdtLog) :
    /\ pdtLog[i].op_code = OpCode.PutPdtResponse
    /\ pdtLog[i].route = "log"
    /\ HandleMetadataPacket(pdtLog[i].payload).called
    /\ ~Surfaced(i)
    /\ pdtLog[j].route = "metadata" /\ pdtLog[j].blocked /\ Surfaced(j)
    /\ oper.stage = "waiting" /\ response.data = <<>>

\* C22: a payload cut short of a field header or of a field's declared
\* length that reaches the decoder is not surfaced to the listener, and
\* the decoder reads no byte at an index at or beyond the payload size.
C22_ShortPacket ==
  \A i \in 1 .. Len(pdtLog) :
    (pdtLog[i].route = "metadata" /\ pdtLog[i].payload \in Truncations) =>
      /\ ~Surfaced(i)
      /\ pdtLog[i].top < Len(pdtLog[i].payload)

\* C22 witness: the decoder was given a payload that ends inside its second
\* field, after a whole first field, and no listener call was made for it.
C22_Witness ==
  \E i \in 1 .. Len(pdtLog) :
    /\ pdtLog[i].route = "metadata"
    /\ pdtLog[i].payload = SubSeq(CutFrame, 1, 8)
    /\ pdtLog[i].top = 7
    /\ ~Surfaced(i)

\* The string of the last field of that type, if there is one.
LastOf(fields, type) ==
  LET at == {i \in 1 .. Len(fields) : fields[i][1] = type}
  IN  IF at = {} THEN <<>>
      ELSE <<fields[CHOOSE i \in at : \A k \in at : k <= i][2]>>

\* The strings of the promo text fields, in order.
RECURSIVE PromoOf(_)
PromoOf(fields) ==
  IF fields = <<>> THEN <<>>
  ELSE (IF fields[1][1] \in 32 .. 35 THEN <<fields[1][2]>> ELSE <<>>)
         \o PromoOf(Tail(fields))

\* The record the fields of one frame stand for.
RecordOf(fields) ==
  [artist |-> LastOf(fields, 1), title |-> LastOf(fields, 2),
   album |-> LastOf(fields, 3), record_label |-> LastOf(fields, 4),
   composer |-> LastOf(fields, 6), alt_artist |-> LastOf(fields, 7),
   comments |-> LastOf(fields, 8), promo_text |-> PromoOf(fields)]

\* C23: the record handed to the listener for a frame is the record of that
\* frame's fields alone: each text field is set exactly when a field of its
\* type occurs and holds the last one, the promo texts are listed in frame
\* order, whatever frames were decoded before.  Every frame with a field
\* that reaches the decoder is surfaced.
C23_RecordOfFrameOnly ==
  \A i \in 1 .. Len(pdtLog), fields \in FieldLists :
    (/\ pdtLog[i].route = "metadata"
     /\ pdtLog[i].payload = MetadataFrame(PdtChannel, fields)
     /\ fields # <<>>) =>
      /\ Surfaced(i)
      /\ EventOf(i)[1] = PdtChannel
      /\ EventOf(i)[2] = RecordOf(fields)

\* C23 witness: two frames were surfaced one after the other, the first
\* with an artist and the second, which has none, without.
C23_Witness ==
  /\ Len(events) = 2
  /\ events[1][2].artist = <<<<65, 66>>>>
  /\ events[2][2].artist = <<>>
  /\ events[2][2].title = <<<<67>>>>

\* The fields of a type PopulateMetadataEventField supports.
Supported(fields) ==
  SelectSeq(fields,
            LAMBDA f : \E n \in DOMAIN MetadataType : MetadataType[n] = f[1])

\* C24: a frame with a field of an unsupported type that reaches the
\* decoder is surfaced, with the record that the same frame without that
\* field decodes to.
C24_UnsupportedSkipped ==
  \A i \in 1 .. Len(pdtLog), fields \in FieldLists :
    (/\ pdtLog[i].route = "metadata"
     /\ pdtLog[i].payload = MetadataFrame(PdtChannel, fields)
     /\ Supported(fields) # fields) =>
      /\ Surfaced(i)
      /\ EventOf(i)[2] =
           HandleMetadataPacket(
             MetadataFrame(PdtChannel, Supported(fields))).data

\* C24 witness: a frame whose first field has an unsupported type was
\* surfaced with the title that follows it.
C24_Witness ==
  \E i \in 1 .. Len(pdtLog) :
    /\ pdtLog[i].payload =
         MetadataFrame(PdtChannel, << <<9, <<88>> >>, <<2, <<67>> >> >>)
    /\ Surfaced(i)
    /\ EventOf(i)[2].title = <<<<67>>>>
    /\ EventOf(i)[2].comments = <<>>

----------------------------------------------------------------------------
(* SpecOps: one derived operation is called while the module answers and   *)
(* pushes PutModuleReadyResponse frames.                                   *)

\* A GetChannelResponse payload: status, channel 51, category 7, the names
\* "KL", "M", "" and "N", and a metadata block with one title.
Descriptor ==
  <<0, 0, 51, 0, 7, 0, 0, 2, 75, 76, 1, 77, 0, 1, 78, 1, 2, 1, 67>>

\* What the module answers a request with.  GetSignalResponse: three valid
\* strengths, one strength out of range at each place, another status, and
\* the status alone.  GetChannelListResponse: two channels, another status,
\* a count of three with one channel.
\* GetChannelResponse: the descriptor, another status, the descriptor cut
\* after the channel id, inside the first name and inside the string of
\* its metadata field.  Any other response: a status.
Responses(name) ==
  CASE name = "GetSignalStrength" ->
         {<<0, 0, 2, 1, 3>>, <<0, 0, 4, 1, 3>>, <<0, 0, 2, 255, 3>>,
          <<0, 0, 2, 1, 4>>, <<1, 0, 2, 1, 3>>, <<0, 0>>}
    [] name = "GetChannelList" ->
         {<<0, 0, 2, 51, 52>>, <<0, 1, 2, 51, 52>>, <<0, 0, 3, 51>>}
    [] name = "GetChannelDescriptor" ->
         {Descriptor, <<1, 0>>, SubSeq(Descriptor, 1, 3),
          SubSeq(Descriptor, 1, 9), SubSeq(Descriptor, 1, 18)}
    [] OTHER -> StatusResponses

\* PutModuleReadyResponse payloads: ready (0) and not yet ready.
ReadyPushes == {<<0>>, <<1>>}

\* The module answers the oldest request.
Respond(payload) ==
  /\ inflight # <<>>
  /\ payload \in Responses(Head(inflight))
  /\ ModuleResponds(payload)

\* The module pushes a PutModuleReadyResponse frame.
PutModuleReady(payload) ==
  ModulePushes(OpCode.PutModuleReadyResponse, payload)

AllResponses ==
  UNION {Responses(o.name) : o \in Operations}

InitOperations == InitOps({<<0, 0>>, <<OpCode.PutModuleReadyResponse, 4>>})

NextOps ==
  \/ \E o \in Operations \cup MonitoringOperations : SendCommand(o)
  \/ WaitFor
  \/ WaitTimeout
  \/ WaitSpurious
  \/ PrimitiveReturns
  \/ \E g \in Garbage : WaitPut(g)
  \/ \E g \in Garbage : OperationReturns(g)
  \/ \E payload \in AllResponses : Respond(payload)
  \/ \E payload \in ReadyPushes : PutModuleReady(payload)

SpecOps == InitOperations /\ [][NextOps]_vars

----------------------------------------------------------------------------
(* Properties of the derived operations, checked under SpecOps.            *)

\* The payloads with the operation's response opcode that were copied into
\* the response array of the operation that returned last.
Answers ==
  SelectSeq(ret.got, LAMBDA f : f[1] = OperationOf(ret.name).resp)

\* C25: a GetSignalStrength that was answered returns success exactly when
\* the response has status success and its bytes 2, 3 and 4 are all in
\* 0..3, and then its three outputs are those bytes.
C25_SignalStrength ==
  (ret.name = "GetSignalStrength" /\ Len(Answers) = 1) =>
    LET payload == Answers[1][2]
        valid == /\ Len(payload) >= 5
                 /\ payload[1] = 0 /\ payload[2] = 0
                 /\ \A i \in 3 .. 5 : payload[i] \in 0 .. 3
    IN  /\ ret.success <=> (valid /\ ~ret.timed_out)
        /\ ret.success => ret.out = SubSeq(payload, 3, 5)

\* The status a payload begins with is not Status::Success.
Refused(payload) == Len(payload) >= 2 /\ (payload[1] # 0 \/ payload[2] # 0)

\* C26: an operation that was answered with a status other than success
\* has returned failure, and every operation that has returned, with
\* success, failure or after a timeout, has put one request frame on the
\* link.
C26_FailureAndOneRequest ==
  ret.n > 0 =>
    /\ (\E a \in 1 .. Len(Answers) : Refused(Answers[a][2])) => ~ret.success
    /\ ret.sent = 1
    /\ Len(link) = ret.n + oper.sent

\* C26 witness: a SetPowerMode answered with the status 0x0001 has
\* returned failure, without a timeout, after one request frame.
C26_Witness ==
  /\ ret.name = "SetPowerMode" /\ ~ret.success /\ ~ret.timed_out
  /\ Len(Answers) = 1 /\ Answers[1][2] = <<1, 0>>
  /\ Len(link) = 1

\* A PutModuleReadyResponse frame whose first byte is 0 was dispatched after
\* the SetResetResponse frame and before Reset returned.
ReadyReceived ==
  \E i, j \in 1 .. ret.frames :
    /\ i < j
    /\ pdtLog[i].op_code = OpCode.SetResetResponse
    /\ pdtLog[j].op_code = OpCode.PutModuleReadyResponse
    /\ pdtLog[j].payload = <<0>>

\* C27: a Reset that was answered with success and went on to wait for
\* module-ready frames returns success exactly when such a frame with
\* readiness byte 0 was received, and failure once a wait has timed out.
C27_ResetUntilReady ==
  (/\ ret.name = "Reset" /\ ret.kind = "WaitPut"
   /\ \E a \in 1 .. Len(Answers) : Answers[a][2] = <<0, 0>>) =>
    /\ ret.success <=> ReadyReceived
    /\ ret.timed_out => ~ret.success

\* The payload GetChannelDescriptor decoded: the last answer copied.
Decoded == Answers[Len(Answers)][2]

\* C29: a GetChannelDescriptor that decodes a response reads it at no index
\* at or beyond the size of the payload received, and a response that stops
\* short of a name or of its metadata block is not returned as a channel
\* descriptor.
C29_DescriptorWithinPayload ==
  (/\ ret.name = "GetChannelDescriptor"
   /\ Len(Answers) = 1 /\ ~ret.timed_out) =>
    /\ ret.top < Len(Decoded)
    /\ Decoded \in {SubSeq(Descriptor, 1, n) : n \in 3 .. Len(Descriptor) - 1}
         => ~ret.success

----------------------------------------------------------------------------
(* The copy of OnPacketReceived, checked under Spec.                       *)

\* C28: when the pending-command slot designates a caller's live buffer and
\* records that buffer's size, OnPacketReceived copies a frame into it only
\* if the payload is no larger than response_size_: a larger payload is
\* never copied, in whole or in part.
C28_NoOversizedCopy ==
  [][(/\ hpc = "copy" /\ hpc' = "notify"
      /\ Live(response_)
      /\ response_size_ = Len(bufs[response_[1]])) =>
       Len(hPayload) <= response_size_]_vars

----------------------------------------------------------------------------
(* SpecWrite: the receive thread acknowledges frames while the calling     *)
(* thread sends commands.  Both end in Transport::SendFrame, which builds  *)
(* tx_buffer on its own stack and then calls write(fd_, ...) until the     *)
(* device has accepted every byte; it takes no lock.  One write() call is  *)
(* one step: the device takes the bytes it accepts from a call together.   *)

\* Frames each thread writes at most.
MaxTx == 2

\* What a write() that accepts less than it was given accepts.
ShortWrite == 4

\* The threads that call SendFrame: ReceiveFrame's, and SendCommand's.
Writers == {"receive", "caller"}

\* The sequence numbers of the Message frames acknowledged: one that the
\* stuffing leaves alone, one that it escapes.
AckSeqs == {0, kSyncByte}

\* The threads inside SendFrame's write loop.
Writing == {wr[i].thread : i \in DOMAIN wr}

\* What the write actions leave alone.
writeIdle == <<ndebug, receiving_, rxIn, rpc, message_buffer, esc, delivered,
               fed, received, stopLog, txOp, txPayload, txDone,
               response_op_code_, response_, response_size_, pc, call, calls,
               timed_out, result, bufs, hpc, hOp, hPayload, seen, deadWrites,
               raceWrites, overruns, timedOutBufs,
               global_metadata_monitoring_enabled_, oper, response, ret,
               events, pdtLog, inflight>>

\* Transport::SendFrame up to its write loop, on thread t for its n-th
\* frame: the stuffed bytes are in tx_buffer, write_pos is 0.  A byte that
\* does not fit fails assert(success); with NDEBUG nothing is written.
SendFrameBegin(t, n, frame) ==
  LET st == StuffFrame(frame)
  IN  /\ built' = built \cup {frame}
      /\ IF st.success
           THEN /\ wr' = Append(wr, [thread |-> t, n |-> n,
                                     tx_buffer |-> st.buffer, write_pos |-> 0])
                /\ aborted' = aborted
           ELSE wr' = wr /\ aborted' = ~ndebug

\* ReceiveFrame has read a valid Message frame with that sequence number
\* and calls SendAckFrame(sequence_number), before it calls the listener.
AckBegin(seq) ==
  /\ ~aborted /\ receiving_ /\ "receive" \notin Writing /\ frames < MaxTx
  /\ SendFrameBegin("receive", frames, AckFrame(seq))
  /\ UNCHANGED <<sequence_number_, link, mutex_, frames, tty>>
  /\ UNCHANGED writeIdle

\* Radio::SendCommand takes mutex_ and calls SendMessageFrame, which
\* advances sequence_number_ and calls SendFrame.  The commands are shorter
\* than UINT8_MAX bytes.
MessageBegin(o) ==
  /\ ~aborted /\ "caller" \notin Writing /\ sequence_number_ < MaxTx
  /\ mutex_ = Free
  /\ mutex_' = {MainThread}
  /\ sequence_number_' = ToUInt8(sequence_number_ + 1)
  /\ SendFrameBegin("caller", sequence_number_,
                    MessageFrame(o.req, o.cmd, sequence_number_))
  /\ UNCHANGED <<link, frames, tty>>
  /\ UNCHANGED writeIdle

\* One turn of SendFrame's write loop on thread t: write() accepts all the
\* remaining bytes or, when short, fewer; write_pos += result.  After the last byte SendFrame returns: the receive
\* thread goes on to the listener, SendCommand goes on to wait_for, which
\* releases mutex_.
SendFrameWrite(t, short) ==
  /\ ~aborted /\ t \in Writing
  /\ LET w == CHOOSE x \in {wr[i] : i \in DOMAIN wr} : x.thread = t
         remaining == Len(w.tx_buffer) - w.write_pos
         n == IF short THEN ShortWrite ELSE remaining
         done == n = remaining
     IN  /\ short => ShortWrite < remaining
         /\ tty' = tty \o [k \in 1 .. n |->
                             <<t, w.n, w.tx_buffer[w.write_pos + k]>>]
         /\ wr' = IF done
                    THEN SelectSeq(wr, LAMBDA x : x.thread # t)
                    ELSE [i \in DOMAIN wr |->
                            IF wr[i].thread = t
                              THEN [wr[i] EXCEPT !.write_pos = @ + n]
                              ELSE wr[i]]
         /\ link' = IF done THEN Append(link, w.tx_buffer) ELSE link
         /\ frames' = IF done /\ t = "receive" THEN frames + 1 ELSE frames
         /\ mutex_' = IF done /\ t = "caller" THEN Free ELSE mutex_
  /\ UNCHANGED <<aborted, sequence_number_, built>>
  /\ UNCHANGED writeIdle

\* write() returns an error: FATAL_ERROR ends the process.
SendFrameWriteFails(t) ==
  /\ ~aborted /\ t \in Writing
  /\ aborted' = TRUE
  /\ UNCHANGED <<sequence_number_, link, built, mutex_, frames, wr, tty>>
  /\ UNCHANGED writeIdle

InitWrite ==
  /\ ndebug \in BOOLEAN
  /\ aborted = FALSE
  /\ sequence_number_ = 0
  /\ receiving_ = TRUE
  /\ link = <<>> /\ rxIn = <<>> /\ rpc = "sync"
  /\ message_buffer = <<>> /\ esc = FALSE /\ delivered = <<>>
  /\ built = {} /\ fed = 0 /\ received = <<>>
  /\ stopLog = [called |-> FALSE, reads |-> 0]
  /\ txOp = 0 /\ txPayload = <<>> /\ txDone = "idle"
  /\ RadioIdle

NextWrite ==
  \/ \E seq \in AckSeqs : AckBegin(seq)
  \/ \E o \in Operations : MessageBegin(o)
  \/ \E t \in Writers : \E short \in BOOLEAN : SendFrameWrite(t, short)
  \/ \E t \in Writers : SendFrameWriteFails(t)

SpecWrite == InitWrite /\ [][NextWrite]_vars

\* C30: the bytes the device accepted for one frame lie next to each other:
\* no byte of another frame lies between two bytes of the same frame of the
\* same thread.
C30_FramesContiguous ==
  \A i, j \in 1 .. Len(tty) :
    (i < j /\ tty[i][1] = tty[j][1] /\ tty[i][2] = tty[j][2]) =>
      \A m \in i .. j : tty[m][1] = tty[i][1] /\ tty[m][2] = tty[i][2]

----------------------------------------------------------------------------
(* InsertByte at the end of tx_buffer, checked under SpecCodec.            *)

\* The bytes InsertByte needs room for: two for a sync or an escape byte.
Encoded(byte) == IF byte \in {kSyncByte, kEscapeByte} THEN 2 ELSE 1

\* C32: each InsertByte call SendFrame makes that finds less room in
\* tx_buffer than the encoding of its byte needs returns false and leaves
\* tx_buffer as it was; a sync or escape byte is not stored as it is in
\* the one slot left.
C32_InsertByteRefusesWithoutRoom ==
  \A f \in built : \A i \in 2 .. Len(f) :
    LET st == StuffLoop(f, 2, i - 1,
                        [success |-> TRUE, buffer |-> <<kSyncByte>>])
        r == InsertByte(f[i], st.buffer, kTxRxBufferSize)
    IN  (st.success /\ Len(st.buffer) + Encoded(f[i]) > kTxRxBufferSize) =>
          (~r.success /\ r.buffer = st.buffer)

----------------------------------------------------------------------------
(* The checksum test of the receive loop, checked under SpecRx.            *)

\* C33: the receive loop accepts a Message frame it has read, and writes
\* its Ack, exactly when the frame's bytes, checksum byte included, sum to
\* 0 modulo 256; and its test, applied to any byte followed by a checksum
\* byte, accepts the byte's negation (0x80 for 0x80) and no other.
C33_AcceptsIffSumZero ==
  [][(/\ Len(received') = Len(received) + 1
      /\ received'[Len(received')][5] = kMessageFrame) =>
        /\ (Len(link') = Len(link) + 1)
             <=> ValidSum(received'[Len(received')])
        /\ \A b \in 0 .. 255 :
             /\ ChecksumValid(<<b, (256 - b) % 256>>)
             /\ ~ChecksumValid(<<b, (257 - b) % 256>>)]_vars

\* C33's case: a Message frame whose bytes before the checksum sum to 0x80
\* and whose checksum byte is 0x80 was read and acknowledged, and a frame
\* with a wrong checksum was read.
C33_Witness ==
  /\ \E i \in 1 .. Len(received) :
       /\ received[i][5] = kMessageFrame
       /\ ByteSum(received[i], 1, Len(received[i]) - 1) % 256 = 128
       /\ received[i][Len(received[i])] = 128
       /\ \E k \in 1 .. Len(link) :
            Unstuff(link[k], 1) = AckBytes(received[i][4])
  /\ \E i \in 1 .. Len(received) : ~ValidSum(received[i])

----------------------------------------------------------------------------
(* Conforming metadata frames, checked under SpecMeta.                     *)

\* C35: every frame in the layout channel id, field count, fields that
\* reaches the decoder is surfaced to the listener with its channel id; a
\* frame with field count 0 is surfaced with the empty record.
C35_ConformingSurfaced ==
  \A i \in 1 .. Len(pdtLog) :
    (pdtLog[i].route = "metadata" /\ pdtLog[i].payload \in WellFormed) =>
      /\ Surfaced(i)
      /\ EventOf(i)[1] = PdtChannel
      /\ pdtLog[i].payload = <<PdtChannel, 0>> => EventOf(i)[2] = Metadata

----------------------------------------------------------------------------
(* The channel list, checked under SpecOps.                                *)

\* C36: a GetChannelList that returns success has appended the ids that
\* follow the count byte of the response received, as many as the count
\* says and in order, and has read the response at no index at or beyond
\* the size of the payload received.
C36_ChannelListWithinPayload ==
  (ret.name = "GetChannelList" /\ Len(Answers) = 1 /\ ret.success) =>
    LET payload == Answers[1][2]
    IN  /\ ret.top < Len(payload)
        /\ ret.out = SubSeq(payload, 4, 3 + payload[3])

----------------------------------------------------------------------------
(* Reset and a module-ready frame that comes early, checked under SpecOps. *)

\* Before Reset returned, a SetResetResponse frame with status success was
\* copied to its response array, and after it a PutModuleReadyResponse
\* frame with readiness byte 0 was dispatched while no WaitPut was
\* registered for it.
ReadyBeforeWait ==
  \E i, j \in 1 .. ret.frames :
    /\ i < j
    /\ pdtLog[i].op_code = OpCode.SetResetResponse
    /\ pdtLog[i].payload = <<0, 0>>
    /\ pdtLog[i].route = "response"
    /\ pdtLog[j].op_code = OpCode.PutModuleReadyResponse
    /\ pdtLog[j].payload = <<0>>
    /\ pdtLog[j].route # "response"

\* C37: a Reset whose reset response was followed by a module-ready frame
\* with readiness byte 0, dispatched before Reset had registered its wait
\* for it, returns success once it has waited.
C37_EarlyReadyNotLost ==
  (ret.name = "Reset" /\ ret.kind = "WaitPut" /\ ReadyBeforeWait) =>
    ret.success

----------------------------------------------------------------------------
(* A frame that follows a cut frame, checked under SpecRx.                 *)

\* The wires of the module that are a whole Message frame with a valid
\* checksum and an opcode.
ListenerWires ==
  {w \in RxWires : Len(w) >= 9 /\ IsListenerFrame(Unstuff(w, 1))}

\* C34: when what is left to read is one well-formed Message frame, the
\* read of its sync byte starts a frame: the byte becomes message_buffer[0]
\* and is not stored as a byte of the frame read before it.
C34_SyncStartsFrame ==
  [][(/\ ~aborted /\ receiving_ /\ rpc \in {"sync", "frame"}
      /\ rxIn \in ListenerWires
      /\ rxIn' = Tail(rxIn)) =>
        message_buffer' = <<kSyncByte>>]_vars

----------------------------------------------------------------------------
(* The receive buffer, checked under SpecCodec.                            *)

\* C39: the number of bytes ReceiveFrame has stored in message_buffer (its
\* pos) is at most six header bytes, the declared length and one checksum
\* byte, hence at most 262 and within kMessageBufferSize; and when the
\* checksum is computed the checksum byte is the last byte stored, after
\* the declared number of payload bytes.
C39_WritePosWithinBuffer ==
  /\ Len(message_buffer) <= 6 + UINT8_MAX + 1
  /\ Len(message_buffer) <= kMessageBufferSize
  /\ Len(message_buffer) >= 6 =>
       Len(message_buffer) <= 6 + message_buffer[6] + 1
  /\ rpc = "validate" =>
       /\ Len(message_buffer) >= 7
       /\ Len(message_buffer) = 6 + message_buffer[6] + 1

\* C39's case: a frame that declares length 255 is stored whole, 262 bytes,
\* and is about to be validated.
C39_Witness ==
  /\ rpc = "validate"
  /\ message_buffer[6] = UINT8_MAX
  /\ Len(message_buffer) = 262

----------------------------------------------------------------------------
(* Stop in the middle of a frame, checked under SpecRx.                    *)

\* C38: the step in which a link read finds receiving_ false writes no Ack
\* and calls no listener, whatever message_buffer then holds, and no later
\* step of the receive loop does.
C38_StopAbandonsFrame ==
  [][rpc' = "off" =>
       (link' = link /\ built' = built /\ delivered' = delivered)]_vars

\* C38's case: the read that found receiving_ false took the checksum byte
\* of a Message frame with a valid checksum and an opcode, which is now
\* whole in message_buffer; nothing was acknowledged or dispatched.
C38_Witness ==
  /\ rpc = "off" /\ stopLog.reads = 1
  /\ Len(message_buffer) >= 9
  /\ Len(message_buffer) = FrameSize(message_buffer)
  /\ IsListenerFrame(message_buffer)
  /\ link = <<>> /\ delivered = <<>>

----------------------------------------------------------------------------
(* SpecAck: the receive loop of SpecRx with the end of ReceiveFrame taken  *)
(* step by step: the checksum test, SendAckFrame with each write() of      *)
(* SendFrame's loop, the call of the listener, and its return.             *)

\* ReceiveFrame after the checksum byte was read: the checksum test and,
\* for a Message frame, SendAckFrame(message_buffer[3]) up to the write
\* loop of SendFrame.
RxValidate ==
  /\ ~aborted /\ rpc = "validate"
  /\ received' = Append(received, message_buffer)
  /\ IF ChecksumValid(message_buffer) /\ message_buffer[5] = kMessageFrame
       THEN /\ SendFrameBegin("receive", frames, AckFrame(message_buffer[4]))
            /\ rpc' = "ack" /\ message_buffer' = message_buffer
       ELSE /\ rpc' = "sync" /\ message_buffer' = <<>>
            /\ UNCHANGED <<built, wr, aborted>>
  /\ UNCHANGED <<ndebug, sequence_number_, receiving_, link, rxIn, esc,
                 delivered, fed, stopLog, txOp, txPayload, txDone>>
  /\ UNCHANGED radioVars
  /\ UNCHANGED <<global_metadata_monitoring_enabled_, oper, response, ret,
                 events, pdtLog, inflight, tty>>

\* A ReceiveFrame that calls the listener without waiting for SendAckFrame
\* to return.
RxAckedBeforeWritten ==
  /\ ~aborted /\ rpc = "ack"
  /\ IF message_buffer[6] < 2
       THEN rpc' = "sync" /\ message_buffer' = <<>> /\ delivered' = delivered
       ELSE /\ rpc' = "listener" /\ message_buffer' = message_buffer
            /\ delivered' = Append(delivered, <<FrameOpCode(message_buffer),
                                                FramePayload(message_buffer)>>)
  /\ UNCHANGED <<ndebug, aborted, sequence_number_, receiving_, link, rxIn,
                 esc, built, fed, received, stopLog, txOp, txPayload, txDone>>
  /\ UNCHANGED radioVars
  /\ UNCHANGED appVars

\* SendAckFrame has returned: a frame shorter than an opcode is logged, any
\* other is handed to event_handler_.OnPacketReceived, with payload
\* pointing into message_buffer.
RxAcked ==
  /\ ~aborted /\ rpc = "ack" /\ "receive" \notin Writing
  /\ IF message_buffer[6] < 2
       THEN rpc' = "sync" /\ message_buffer' = <<>> /\ delivered' = delivered
       ELSE /\ rpc' = "listener" /\ message_buffer' = message_buffer
            /\ delivered' = Append(delivered, <<FrameOpCode(message_buffer),
                                                FramePayload(message_buffer)>>)
  /\ UNCHANGED <<ndebug, aborted, sequence_number_, receiving_, link, rxIn,
                 esc, built, fed, received, stopLog, txOp, txPayload, txDone>>
  /\ UNCHANGED radioVars
  /\ UNCHANGED appVars

\* OnPacketReceived returns, and ReceiveFrame with it.
RxListenerReturns ==
  /\ ~aborted /\ rpc = "listener"
  /\ rpc' = "sync" /\ message_buffer' = <<>>
  /\ UNCHANGED <<ndebug, aborted, sequence_number_, receiving_, link, rxIn,
                 esc, delivered, built, fed, received, stopLog, txOp,
                 txPayload, txDone>>
  /\ UNCHANGED radioVars
  /\ UNCHANGED appVars

NextAck ==
  \/ Start
  \/ Stop
  \/ RxSync
  \/ RxByte
  \/ RxStopped
  \/ RxValidate
  \/ \E short \in BOOLEAN : SendFrameWrite("receive", short)
  \/ SendFrameWriteFails("receive")
  \/ RxAcked
  \/ RxListenerReturns

SpecAck == InitRx /\ [][NextAck]_vars

\* The bytes the device accepted from the receive thread for its latest
\* frame are the stuffed Ack frame for the sequence number in
\* message_buffer.
AckOnLink ==
  LET mine == SelectSeq(tty, LAMBDA e : e[1] = "receive" /\ e[2] = frames - 1)
  IN  /\ frames > 0
      /\ [k \in 1 .. Len(mine) |-> mine[k][3]] =
           StuffFrame(AckFrame(message_buffer[4])).buffer

====
